---- MODULE Spec2Model ----
(***************************************************************************)
(* Interactive-classroom API: session modules (activation exclusivity),    *)
(* the participant join protocol and the three credential kinds.           *)
(* The committed database is the state; every service call is one action  *)
(* (one transaction), except in the specifications that split a call into  *)
(* its statements to study interleavings.                                  *)
(***************************************************************************)
EXTENDS Integers, Sequences, FiniteSets, TLC

\* ------------------------------------------------------------------ bounds
MaxModules == 2
MaxParticipants == 3

\* -------------------------------------------------------------- constants
NULL == 0

SessionIds == {1, 2}
UserIds == {1, 2}
\* the users table: both accounts exist, only the first verified its email
RegisteredUsers == (1 :> [email_verified |-> TRUE]) @@ (2 :> [email_verified |-> FALSE])
WorkspaceOwner == 1
ModuleIds == 1..MaxModules

\* workspace modules that exist, with the workspace each belongs to;
\* every session of the model lives in workspace 1
WorkspaceModuleWorkspace == (1 :> 1) @@ (2 :> 2)
WorkspaceModuleInputs == {1, 2, 3}
SessionWorkspace == 1

VARIABLES
    workspaces,          \* workspaces table: id -> row
    session_seq,         \* last id handed out by sessions' sequence
    sessions,            \* sessions table: id -> row
    session_modules,     \* session_modules table: id -> row
    module_seq,          \* last id handed out by session_modules' sequence
    timer_states,        \* session_module_timer_state table: module id -> row
    question_messages,   \* session_question_messages table: id -> row
    question_likes,      \* session_question_message_likes: set of rows
    participants,        \* session_participants table: id -> row
    fingerprints,        \* session_join_fingerprints: set of rows
    guest_verifications, \* guest_email_verifications: set of emails
    pending_codes,       \* session_pending_email_codes: set of rows
    users,               \* users table: id -> row
    tokens,              \* signed tokens issued so far (payloads)
    now,                 \* wall clock
    tx,                  \* open transactions of the interleaving specifications
    last                 \* outcome of the last call

vars == <<workspaces, session_seq, sessions, session_modules, module_seq, timer_states,
          question_messages, question_likes, participants, fingerprints, guest_verifications, pending_codes, users, tokens, now, tx, last>>

wsVars == <<workspaces, session_seq>>
qVars == <<question_messages, question_likes>>
modVars == <<session_modules, module_seq, timer_states, qVars>>
joinVars == <<participants, fingerprints, guest_verifications, pending_codes,
              users, tokens, now>>

\* a request that carries no bearer token
NoToken == [type |-> "none", sub |-> "", session_id |-> NULL, exp |-> 0]

ResultJ(op, ok, err, sid, id, u, e, fp, tok) ==
    [op |-> op, ok |-> ok, err |-> err, session_id |-> sid, id |-> id,
     user_id |-> u, email |-> e, fingerprint |-> fp, tok |-> tok]

Result(op, ok, err, sid, id) ==
    ResultJ(op, ok, err, sid, id, NULL, "", "", NoToken)

\* effective settings of a session: the snapshot stored at creation
Settings(mode, cap, org) ==
    [participant_entry_mode |-> mode, max_participants |-> cap,
     sso_organization_id |-> org, email_code_domains_whitelist |-> {}]

DefaultSettings == Settings("anonymous", NULL, NULL)

\* ----------------------------------------------------------- sessions rows
\* SessionRepository.create: a new row is active, not stopped, never started
NewSession(passcode, settings) ==
    [passcode |-> passcode,
     is_stopped |-> FALSE,
     start_datetime |-> NULL,
     end_datetime |-> NULL,
     stopped_participant_count |-> 0,
     status |-> "active",
     is_deleted |-> FALSE,
     settings |-> settings,
     template_link_type |-> "full",
     custom_settings |-> NULL,
     active_module_id |-> NULL]

\* SessionRepository.get_by_id: soft-deleted rows are not found
SessionGetById(sid) ==
    IF sid \in DOMAIN sessions /\ ~sessions[sid].is_deleted THEN sid ELSE NULL

\* ownership check shared by the module services: workspace.user_id != user_id
OwnsSession(sid, u) == u = WorkspaceOwner

\* Workspace row as WorkspaceRepository.create leaves it
NewWorkspace ==
    [user_id |-> WorkspaceOwner, status |-> "active", is_deleted |-> FALSE,
     template_settings |-> DefaultSettings]

\* the one workspace of the model, holding every session
InitialWorkspaces == (SessionWorkspace :> NewWorkspace)

\* WorkspaceRepository.get_by_id
WorkspaceGetById(w) ==
    IF w \in DOMAIN workspaces /\ ~workspaces[w].is_deleted THEN w ELSE NULL

\* ======================================================================
\* Session modules
\* ======================================================================

ModulesOf(mods, sid) == {m \in DOMAIN mods : mods[m].session_id = sid}
ActiveOf(mods, sid) == {m \in ModulesOf(mods, sid) : mods[m].is_active}

\* the index without its WHERE clause's protection: nothing is enforced
UqOneActiveMissing(mods) == TRUE

\* uq_session_modules_one_active: UNIQUE (session_id) WHERE is_active = true
UqOneActive(mods) ==
    \A sid \in SessionIds : Cardinality(ActiveOf(mods, sid)) <= 1

\* session_module_timer_state.session_module_id is ON DELETE CASCADE: a timer
\* row lives only as long as its module row
TimerStatesOf(mods) ==
    [m \in DOMAIN timer_states \cap mods |-> timer_states[m]]

\* session_question_messages.session_module_id and the like rows' message_id
\* are ON DELETE CASCADE as well
CascadeQuestions(mods) ==
    LET kept == {x \in DOMAIN question_messages : question_messages[x].session_module_id \in mods}
    IN /\ question_messages' = [x \in kept |-> question_messages[x]]
       /\ question_likes' = {l \in question_likes : l.message_id \in kept}

\* db.commit() of a module transaction: the flush fails with IntegrityError
\* when the new rows break the partial unique index, and nothing is kept
CommitModules(op, sid, m, newMods, newSessions, newSeq) ==
    IF UqOneActive(newMods)
    THEN /\ session_modules' = newMods
         /\ sessions' = newSessions
         /\ module_seq' = newSeq
         /\ timer_states' = TimerStatesOf(DOMAIN newMods)
         /\ CascadeQuestions(DOMAIN newMods)
         /\ last' = Result(op, TRUE, "", sid, m)
    ELSE /\ UNCHANGED <<session_modules, sessions, module_seq, timer_states, qVars>>
         /\ last' = Result(op, FALSE, "IntegrityError", sid, m)

Reject(op, err, sid, id) ==
    /\ last' = Result(op, FALSE, err, sid, id)

\* the common prefix of update/set_active/delete: session, owner, module
ModuleAccessError(sid, m, u) ==
    IF SessionGetById(sid) = NULL THEN "Session not found"
    ELSE IF ~OwnsSession(sid, u) THEN "Session not found or access denied"
    ELSE IF m \notin DOMAIN session_modules THEN "Module not found"
    ELSE IF session_modules[m].session_id # sid THEN "Module not found or access denied"
    ELSE ""

\* SessionModuleRepository.set_active_module: sweep, activate, back-reference
SweepOthers(mods, sid, m) ==
    [x \in DOMAIN mods |->
        IF mods[x].session_id = sid /\ x # m /\ ~mods[x].is_deleted
        THEN [mods[x] EXCEPT !.is_active = FALSE]
        ELSE mods[x]]

\* SessionModuleRepository.deactivate_all_modules' UPDATE
SweepAll(mods, sid) ==
    [x \in DOMAIN mods |->
        IF mods[x].session_id = sid /\ ~mods[x].is_deleted
        THEN [mods[x] EXCEPT !.is_active = FALSE]
        ELSE mods[x]]

\* SessionModuleService.add_module_from_workspace
AddModuleFromWorkspace(sid, wm, u) ==
    /\ module_seq < MaxModules
    /\ UNCHANGED <<wsVars, joinVars, tx>>
    /\ LET err == IF SessionGetById(sid) = NULL THEN "Session not found"
                  ELSE IF ~OwnsSession(sid, u) THEN "Session not found or access denied"
                  ELSE IF wm \notin DOMAIN WorkspaceModuleWorkspace
                       THEN "Workspace module not found"
                  ELSE IF WorkspaceModuleWorkspace[wm] # SessionWorkspace
                       THEN "Workspace module not found or access denied"
                  ELSE ""
           id == module_seq + 1
       IN IF err # ""
          THEN Reject("add_module", err, sid, NULL)
               /\ UNCHANGED <<session_modules, sessions, module_seq, timer_states, qVars>>
          ELSE CommitModules("add_module", sid, id,
                   session_modules @@
                       (id :> [session_id |-> sid, is_active |-> FALSE,
                               is_deleted |-> FALSE]),
                   sessions, id)

\* SessionModuleService.set_active_module
SetActiveModule(sid, m, u) ==
    /\ UNCHANGED <<wsVars, joinVars, tx>>
    /\ LET err == ModuleAccessError(sid, m, u)
       IN IF err # ""
          THEN Reject("set_active_module", err, sid, m)
               /\ UNCHANGED <<session_modules, sessions, module_seq, timer_states, qVars>>
          ELSE CommitModules("set_active_module", sid, m,
                   [SweepOthers(session_modules, sid, m)
                        EXCEPT ![m].is_active = TRUE],
                   [sessions EXCEPT ![sid].active_module_id = m],
                   module_seq)

\* SessionModuleService.deactivate_active_module
DeactivateActiveModule(sid, u) ==
    /\ UNCHANGED <<wsVars, joinVars, tx>>
    /\ LET err == IF SessionGetById(sid) = NULL THEN "Session not found"
                  ELSE IF ~OwnsSession(sid, u) THEN "Session not found or access denied"
                  ELSE IF sessions[sid].active_module_id = NULL THEN "no active module"
                  ELSE ""
       IN IF err # ""
          THEN Reject("deactivate_active_module", err, sid, NULL)
               /\ UNCHANGED <<session_modules, sessions, module_seq, timer_states, qVars>>
          ELSE CommitModules("deactivate_active_module", sid, NULL,
                   SweepAll(session_modules, sid),
                   [sessions EXCEPT ![sid].active_module_id = NULL],
                   module_seq)

\* the foreign key sessions.active_module_id ... ON DELETE SET NULL
FkSetNull(sess, m) ==
    [s \in DOMAIN sess |->
        IF sess[s].active_module_id = m
        THEN [sess[s] EXCEPT !.active_module_id = NULL]
        ELSE sess[s]]

\* SessionModuleService.delete_module with SessionModuleRepository.delete
\* and SessionModuleRepository.soft_delete
DeleteModule(sid, m, u, hard) ==
    /\ UNCHANGED <<wsVars, joinVars, tx>>
    /\ LET err == ModuleAccessError(sid, m, u)
           row == session_modules[m]
           cleared == IF row.is_active
                      THEN [sessions EXCEPT ![row.session_id].active_module_id = NULL]
                      ELSE sessions
       IN IF err # ""
          THEN Reject("delete_module", err, sid, m)
               /\ UNCHANGED <<session_modules, sessions, module_seq, timer_states, qVars>>
          ELSE IF hard
          THEN CommitModules("delete_module", sid, m,
                   [x \in DOMAIN session_modules \ {m} |-> session_modules[x]],
                   FkSetNull(cleared, m), module_seq)
          ELSE IF row.is_deleted
          THEN Reject("delete_module", "not found", sid, m)
               /\ UNCHANGED <<session_modules, sessions, module_seq, timer_states, qVars>>
          ELSE CommitModules("delete_module", sid, m,
                   [session_modules EXCEPT ![m].is_deleted = TRUE,
                                           ![m].is_active = FALSE],
                   cleared, module_seq)

\* SessionModuleRepository.restore, committed by its caller
RestoreModule(m) ==
    /\ UNCHANGED <<wsVars, joinVars, tx>>
    /\ IF m \in DOMAIN session_modules /\ session_modules[m].is_deleted
       THEN CommitModules("restore_module", session_modules[m].session_id, m,
                [session_modules EXCEPT ![m].is_deleted = FALSE],
                sessions, module_seq)
       ELSE Reject("restore_module", "not found", NULL, m)
            /\ UNCHANGED <<session_modules, sessions, module_seq, timer_states, qVars>>

\* two sessions created and left as SessionRepository.create makes them
InitModule ==
    /\ workspaces = InitialWorkspaces
    /\ session_seq = 2
    /\ sessions = [s \in SessionIds |->
                      NewSession(IF s = 1 THEN "AAAAAA" ELSE "BBBBBB",
                                 DefaultSettings)]
    /\ session_modules = <<>>
    /\ module_seq = 0
    /\ timer_states = <<>>
    /\ question_messages = <<>>
    /\ question_likes = {}
    /\ participants = <<>>
    /\ fingerprints = {}
    /\ guest_verifications = {}
    /\ pending_codes = {}
    /\ users = RegisteredUsers
    /\ tokens = {}
    /\ now = 1
    /\ tx = <<>>
    /\ last = Result("init", TRUE, "", NULL, NULL)

NextModule ==
    \/ \E sid \in SessionIds, wm \in WorkspaceModuleInputs, u \in UserIds :
           AddModuleFromWorkspace(sid, wm, u)
    \/ \E sid \in SessionIds, m \in ModuleIds, u \in UserIds :
           SetActiveModule(sid, m, u)
    \/ \E sid \in SessionIds, u \in UserIds : DeactivateActiveModule(sid, u)
    \/ \E sid \in SessionIds, m \in ModuleIds, u \in UserIds, hard \in BOOLEAN :
           DeleteModule(sid, m, u, hard)
    \/ \E m \in ModuleIds : RestoreModule(m)

SpecModule == InitModule /\ [][NextModule]_vars

\* ---------------------------------------------------------------- claims

\* C1: in every committed state each session has at most one SessionModule
\* row with is_active = true, whatever add, activate, deactivate, soft-delete,
\* hard-delete and restore calls came before.
AtMostOneActiveModule ==
    \A sid \in SessionIds : Cardinality(ActiveOf(session_modules, sid)) <= 1

\* an activation that switched the active module of a session with several rows
C1Witness ==
    /\ last.op = "set_active_module" /\ last.ok
    /\ Cardinality(ModulesOf(session_modules, last.session_id)) >= 2
    /\ ActiveOf(session_modules, last.session_id) = {last.id}
    /\ \E m \in ModulesOf(session_modules, last.session_id) :
           m # last.id /\ session_modules[m].is_deleted

\* C3: the back-reference and the flags agree: active_module_id is null
\* exactly when no module of the session is active, and otherwise it names
\* the one active module.
BackReferenceAgrees ==
    \A sid \in DOMAIN sessions :
        LET act == ActiveOf(session_modules, sid)
            ref == sessions[sid].active_module_id
        IN /\ (ref = NULL) <=> (act = {})
           /\ ref # NULL => act = {ref}

\* ======================================================================
\* Two concurrent activation requests on session 1, statement by statement
\* (PostgreSQL read committed, SessionLocal with autoflush=False)
\* ======================================================================
Txns == {1, 2}
ActSession == 1

Open(t) == tx[t].pc \notin {"committed", "rolled_back"}
Others(t) == {o \in Txns : o # t /\ Open(o)}
LockedByOther(t, x) == \E o \in Others(t) : x \in tx[o].locks
SessionLockedByOther(t) == \E o \in Others(t) : tx[o].session_lock

\* rows matched by the sweep UPDATE of set_active_module
SweepTargets(m) ==
    {x \in ModulesOf(session_modules, ActSession) :
        x # m /\ ~session_modules[x].is_deleted}

\* the table as transaction t sees it after its own statements
TxView(t, withActive) ==
    [x \in DOMAIN session_modules |->
        IF x = tx[t].m /\ withActive
        THEN [session_modules[x] EXCEPT !.is_active = TRUE]
        ELSE IF x \in tx[t].swept
        THEN [session_modules[x] EXCEPT !.is_active = FALSE]
        ELSE session_modules[x]]

\* SessionModuleService.set_active_module: SessionRepository.get_by_id
TxReadSession(t) ==
    /\ tx[t].pc = "begin"
    /\ tx' = [tx EXCEPT ![t].pc = "session_read",
                        ![t].seen_ref = sessions[ActSession].active_module_id]
    /\ UNCHANGED <<wsVars, sessions, session_modules, module_seq, timer_states, qVars, joinVars, last>>

\* SessionModuleService.set_active_module: SessionModuleRepository.get_by_id;
\* the row stays in the identity map, so later queries keep these values
TxReadModule(t) ==
    /\ tx[t].pc = "session_read"
    /\ tx' = [tx EXCEPT ![t].pc = "module_read",
                        ![t].seen_active = session_modules[tx[t].m].is_active]
    /\ UNCHANGED <<wsVars, sessions, session_modules, module_seq, timer_states, qVars, joinVars, last>>

\* SessionModuleRepository.set_active_module: the bulk UPDATE runs at once
\* and row-locks what it matches; it waits for rows another transaction holds
TxSweepBlocked(t) == \E x \in SweepTargets(tx[t].m) : LockedByOther(t, x)

TxSweep(t) ==
    /\ tx[t].pc = "module_read"
    /\ ~TxSweepBlocked(t)
    /\ tx' = [tx EXCEPT ![t].pc = "swept",
                        ![t].swept = SweepTargets(tx[t].m),
                        ![t].locks = @ \cup SweepTargets(tx[t].m)]
    /\ UNCHANGED <<wsVars, sessions, session_modules, module_seq, timer_states, qVars, joinVars, last>>

\* db.commit(), flush: UPDATE sessions SET active_module_id, only when the
\* attribute changed from the value loaded
TxFlushSessionBlocked(t) ==
    tx[t].seen_ref # tx[t].m /\ SessionLockedByOther(t)

TxFlushSession(t) ==
    /\ tx[t].pc = "swept"
    /\ ~TxFlushSessionBlocked(t)
    /\ tx' = [tx EXCEPT ![t].pc = "session_flushed",
                        ![t].session_lock = (tx[t].seen_ref # tx[t].m)]
    /\ UNCHANGED <<wsVars, sessions, session_modules, module_seq, timer_states, qVars, joinVars, last>>

\* rows whose index entry would collide with the new entry of t's module
IndexRivals(t) ==
    {x \in ActiveOf(TxView(t, FALSE), ActSession) : x # tx[t].m}

\* db.commit(), flush: UPDATE session_modules SET is_active = true, only when
\* the attribute changed; waits for the row lock and for in-progress owners of
\* a colliding index entry, then fails with IntegrityError on a collision
TxFlushModuleBlocked(t) ==
    /\ ~tx[t].seen_active
    /\ \/ LockedByOther(t, tx[t].m)
       \/ \E x \in IndexRivals(t) : LockedByOther(t, x)
       \/ \E o \in Others(t) : tx[o].w_active /\ tx[o].m # tx[t].m

TxFlushModule(t) ==
    /\ tx[t].pc = "session_flushed"
    /\ ~TxFlushModuleBlocked(t)
    /\ IF tx[t].seen_active
       THEN tx' = [tx EXCEPT ![t].pc = "module_flushed"]
       ELSE IF UqOneActive(TxView(t, TRUE))
       THEN tx' = [tx EXCEPT ![t].pc = "module_flushed",
                             ![t].w_active = TRUE,
                             ![t].locks = @ \cup {tx[t].m}]
       ELSE tx' = [tx EXCEPT ![t].pc = "rolled_back",
                             ![t].locks = {}, ![t].session_lock = FALSE,
                             ![t].swept = {}]
    /\ UNCHANGED <<wsVars, sessions, session_modules, module_seq, timer_states, qVars, joinVars, last>>

\* db.commit(), COMMIT: the statements' effects become the committed rows
TxCommit(t) ==
    /\ tx[t].pc = "module_flushed"
    /\ session_modules' = TxView(t, tx[t].w_active)
    /\ sessions' = IF tx[t].session_lock
                   THEN [sessions EXCEPT ![ActSession].active_module_id = tx[t].m]
                   ELSE sessions
    /\ tx' = [tx EXCEPT ![t].pc = "committed", ![t].locks = {},
                        ![t].session_lock = FALSE]
    /\ last' = Result("set_active_module", TRUE, "", ActSession, tx[t].m)
    /\ UNCHANGED <<wsVars, module_seq, timer_states, qVars, joinVars>>

\* a waiting transaction is ended by the deadlock detector or its client;
\* get_db closes the session, which rolls everything back
TxBlocked(t) ==
    \/ tx[t].pc = "module_read" /\ TxSweepBlocked(t)
    \/ tx[t].pc = "swept" /\ TxFlushSessionBlocked(t)
    \/ tx[t].pc = "session_flushed" /\ TxFlushModuleBlocked(t)

TxRollback(t) ==
    /\ Open(t)
    /\ TxBlocked(t)
    /\ tx' = [tx EXCEPT ![t].pc = "rolled_back", ![t].locks = {},
                        ![t].session_lock = FALSE, ![t].swept = {},
                        ![t].w_active = FALSE]
    /\ UNCHANGED <<wsVars, sessions, session_modules, module_seq, timer_states, qVars, joinVars, last>>

NewTx(m) ==
    [pc |-> "begin", m |-> m, seen_ref |-> NULL, seen_active |-> FALSE,
     swept |-> {}, locks |-> {}, session_lock |-> FALSE, w_active |-> FALSE]

\* session 1 with all its module rows, some soft-deleted, at most one active
\* and mirrored in active_module_id; each request targets one of the rows
InitActivate ==
    /\ workspaces = InitialWorkspaces
    /\ session_seq = 2
    /\ \E del \in SUBSET ModuleIds, act \in {NULL} \cup ModuleIds :
         /\ session_modules =
                [x \in ModuleIds |->
                    [session_id |-> ActSession, is_active |-> (x = act),
                     is_deleted |-> (x \in del)]]
         /\ sessions = [s \in SessionIds |->
                [NewSession(IF s = 1 THEN "AAAAAA" ELSE "BBBBBB", DefaultSettings)
                    EXCEPT !.active_module_id = IF s = ActSession THEN act ELSE NULL]]
    /\ module_seq = MaxModules
    /\ timer_states = <<>>
    /\ question_messages = <<>>
    /\ question_likes = {}
    /\ participants = <<>>
    /\ fingerprints = {}
    /\ guest_verifications = {}
    /\ pending_codes = {}
    /\ users = RegisteredUsers
    /\ tokens = {}
    /\ now = 1
    /\ tx \in [Txns -> {NewTx(m) : m \in ModuleIds}]
    /\ last = Result("init", TRUE, "", NULL, NULL)

NextActivate ==
    \/ \E t \in Txns : TxReadSession(t)
    \/ \E t \in Txns : TxReadModule(t)
    \/ \E t \in Txns : TxSweep(t)
    \/ \E t \in Txns : TxFlushSession(t)
    \/ \E t \in Txns : TxFlushModule(t)
    \/ \E t \in Txns : TxCommit(t)
    \/ \E t \in Txns : TxRollback(t)

SpecActivate == InitActivate /\ [][NextActivate]_vars

\* C2: when set_active_module(A) and set_active_module(B) run concurrently on
\* one session, no committed state has both A and B with is_active = true.
NoTwoTargetsActive ==
    \A a, b \in Txns :
        tx[a].m # tx[b].m =>
            ~(session_modules[tx[a].m].is_active /\ session_modules[tx[b].m].is_active)

\* both requests, for different modules, committed after overlapping
C2Witness ==
    /\ tx[1].pc = "committed" /\ tx[2].pc = "committed"
    /\ tx[1].m # tx[2].m
    /\ last.op = "set_active_module"
    /\ ActiveOf(session_modules, ActSession) # {}

\* ======================================================================
\* Participant join protocol
\* ======================================================================

\* time unit: 12 hours
AccessTokenExpire == 1
GuestTokenExpire == 2
VerificationCodeExpire == 0
ParticipantTokenExpire == 2
SessionJoinFingerprintLimit == 2

Passcodes == {"AAAAAA", "BBBBBB"}
JoinPasscodes == {"AAAAAA"}
PasscodeInputs == JoinPasscodes \cup {"ZZZZZZ"}
Emails == {"a@x.org"}
EmailInputs == {"a@x.org", " A@X.org "}
FingerprintInputs == {"fp1", " "}
JoinUserInputs == {1, 2, 3}
Modes == {"anonymous", "registered", "email_code", "sso"}

\* _normalize_email: email.strip().lower()
NormalizeEmail(e) == IF e = " A@X.org " THEN "a@x.org" ELSE e

\* _hash_fingerprint: strip, then sha256 of what is left ("" when blank)
HashFingerprint(fp) == IF fp = "fp1" THEN "h1" ELSE ""

\* str(participant_id) / str(user_id) in the token payload, int(sub) back
IntToStr(n) == IF n = 1 THEN "1" ELSE IF n = 2 THEN "2" ELSE IF n = 3 THEN "3"
               ELSE IF n = 4 THEN "4" ELSE "5"
ParseInt(str) == IF str = "1" THEN 1 ELSE IF str = "2" THEN 2 ELSE IF str = "3" THEN 3
                 ELSE IF str = "4" THEN 4 ELSE IF str = "5" THEN 5 ELSE NULL

\* SessionRepository.get_by_passcode
SessionGetByPasscode(pc) ==
    IF \E sid \in DOMAIN sessions : sessions[sid].passcode = pc /\ ~sessions[sid].is_deleted
    THEN CHOOSE sid \in DOMAIN sessions :
             sessions[sid].passcode = pc /\ ~sessions[sid].is_deleted
    ELSE NULL

\* SessionRepository.get_settings
GetSettings(sid) == sessions[sid].settings

\* SessionRepository.get_merged_settings(session, workspace.template_settings):
\* the workspace's template as it is now, for a partly linked session with
\* the session's custom_settings written over it
GetMergedSettings(sid) ==
    LET template == workspaces[SessionWorkspace].template_settings
        custom == sessions[sid].custom_settings
    IN IF sessions[sid].template_link_type = "full" \/ custom = NULL THEN template
       ELSE [k \in DOMAIN template |-> IF k \in DOMAIN custom THEN custom[k] ELSE template[k]]

\* SessionParticipantRepository.get_by_session_id
ParticipantsOf(sid) ==
    {p \in DOMAIN participants :
        participants[p].session_id = sid /\ ~participants[p].is_deleted}

\* SessionParticipantRepository.get_by_id
ParticipantGetByIdUnfiltered(p) == IF p \in DOMAIN participants THEN p ELSE NULL

ParticipantGetById(p) ==
    IF p \in DOMAIN participants /\ ~participants[p].is_deleted THEN p ELSE NULL

\* SessionParticipantRepository.get_by_session_and_user (rows .first() may return)
ParticipantsBySessionAndUser(sid, u) ==
    {p \in ParticipantsOf(sid) : participants[p].user_id = u}

\* SessionParticipantRepository.get_by_session_and_guest_email
ParticipantsBySessionAndGuestEmail(sid, e) ==
    {p \in ParticipantsOf(sid) : participants[p].guest_email = e}

\* the checks every join starts with: found, started, entry mode
JoinGateError(sid, expected) ==
    IF sid = NULL THEN "Session not found"
    ELSE IF sessions[sid].is_stopped THEN "Session has not started yet"
    ELSE IF GetSettings(sid).participant_entry_mode # expected
         THEN "Session is not in expected entry mode"
    ELSE ""

\* _check_max_participants with the comparison the wrong way round by one
MaxParticipantsErrorOffByOne(sid) ==
    IF GetSettings(sid).max_participants # NULL
       /\ Cardinality(ParticipantsOf(sid)) > GetSettings(sid).max_participants
    THEN "Maximum participants reached" ELSE ""

\* _check_max_participants
MaxParticipantsError(sid) ==
    IF GetSettings(sid).max_participants # NULL
       /\ Cardinality(ParticipantsOf(sid)) >= GetSettings(sid).max_participants
    THEN "Maximum participants reached" ELSE ""

\* the capacity check placed before the lookup of the existing participant
CapacityErrorBeforeLookup(sid, existing) == MaxParticipantsError(sid)

\* join_registered / join_guest: the existing participant is returned before
\* _check_max_participants is reached
CapacityErrorFor(sid, existing) ==
    IF existing # {} THEN "" ELSE MaxParticipantsError(sid)

\* SessionJoinFingerprintRepository.count_since
CountSince(sid, hash, entry_type, created_after) ==
    Cardinality({f \in fingerprints :
        /\ f.session_id = sid
        /\ f.fingerprint_hash = hash
        /\ f.entry_type = entry_type
        /\ f.created_at >= created_after
        /\ ~participants[f.participant_id].is_deleted})

\* _enforce_fingerprint_limit
FingerprintLimitError(sid, fp, entry_type) ==
    IF HashFingerprint(fp) = "" THEN "Fingerprint is required"
    ELSE IF CountSince(sid, HashFingerprint(fp), entry_type,
                       now - ParticipantTokenExpire) >= SessionJoinFingerprintLimit
         THEN "Fingerprint limit reached"
    ELSE ""

NewParticipant(sid, type, u, e) ==
    [session_id |-> sid, participant_type |-> type, user_id |-> u,
     guest_email |-> e, last_heartbeat_at |-> NULL, is_deleted |-> FALSE]

\* _track_fingerprint_join
NewFingerprint(sid, fp, entry_type, p) ==
    [session_id |-> sid, participant_id |-> p,
     fingerprint_hash |-> HashFingerprint(fp), entry_type |-> entry_type,
     created_at |-> now]

\* create_participant_token without the session_id claim
ParticipantTokenUnbound(p, sid) ==
    [type |-> "session_participant", sub |-> IntToStr(p), session_id |-> NULL,
     exp |-> now + GuestTokenExpire]

\* create_participant_token
ParticipantToken(p, sid) ==
    [type |-> "session_participant", sub |-> IntToStr(p), session_id |-> sid,
     exp |-> now + GuestTokenExpire]

\* create_guest_access_token
GuestToken(e) ==
    [type |-> "session_guest", sub |-> e, session_id |-> NULL,
     exp |-> now + GuestTokenExpire]

\* create_access_token(data={"sub": user.id}) as AuthService.login calls it
UserToken(u) ==
    [type |-> "", sub |-> IntToStr(u), session_id |-> NULL,
     exp |-> now + AccessTokenExpire]

JoinRejected(op, err, sid, u, e, fp) ==
    /\ last' = ResultJ(op, FALSE, err, sid, NULL, u, e, fp, NoToken)
    /\ UNCHANGED <<participants, fingerprints, tokens>>

\* SessionJoinService.join_anonymous
JoinAnonymous(pc, fp) ==
    /\ UNCHANGED <<wsVars, sessions, modVars, guest_verifications, pending_codes, users, now, tx>>
    /\ LET sid == SessionGetByPasscode(pc)
           gate == JoinGateError(sid, "anonymous")
           err == IF gate # "" THEN gate
                  ELSE IF MaxParticipantsError(sid) # "" THEN MaxParticipantsError(sid)
                  ELSE FingerprintLimitError(sid, fp, "anonymous")
           p == Len(participants) + 1
       IN IF err # ""
          THEN JoinRejected("join_anonymous", err, sid, NULL, "", fp)
          ELSE /\ Len(participants) < MaxParticipants
               /\ participants' = Append(participants,
                                         NewParticipant(sid, "anonymous", NULL, ""))
               /\ fingerprints' = fingerprints \cup {NewFingerprint(sid, fp, "anonymous", p)}
               /\ tokens' = tokens \cup {ParticipantToken(p, sid)}
               /\ last' = ResultJ("join_anonymous", TRUE, "", sid, p, NULL, "", fp,
                                  ParticipantToken(p, sid))

\* SessionJoinService.join_registered
JoinRegistered(pc, u) ==
    /\ UNCHANGED <<wsVars, sessions, modVars, guest_verifications, pending_codes, users, now, tx>>
    /\ LET sid == SessionGetByPasscode(pc)
           gate == JoinGateError(sid, "registered")
           pre == IF gate # "" THEN gate
                  ELSE IF u \notin DOMAIN users THEN "User not found" ELSE ""
           p == Len(participants) + 1
       IN IF pre # ""
          THEN JoinRejected("join_registered", pre, sid, u, "", "")
          ELSE IF CapacityErrorFor(sid, ParticipantsBySessionAndUser(sid, u)) # ""
          THEN JoinRejected("join_registered",
                            CapacityErrorFor(sid, ParticipantsBySessionAndUser(sid, u)),
                            sid, u, "", "")
          ELSE IF ParticipantsBySessionAndUser(sid, u) # {}
          THEN \E existing \in ParticipantsBySessionAndUser(sid, u) :
                   /\ last' = ResultJ("join_registered", TRUE, "", sid, existing,
                                      u, "", "", NoToken)
                   /\ UNCHANGED <<participants, fingerprints, tokens>>
          ELSE /\ Len(participants) < MaxParticipants
               /\ participants' = Append(participants, NewParticipant(sid, "user", u, ""))
               /\ last' = ResultJ("join_registered", TRUE, "", sid, p, u, "", "", NoToken)
               /\ UNCHANGED <<fingerprints, tokens>>

\* SessionJoinService.join_guest
JoinGuest(pc, rawEmail, fp) ==
    /\ UNCHANGED <<wsVars, sessions, modVars, guest_verifications, pending_codes, users, now, tx>>
    /\ LET e == NormalizeEmail(rawEmail)
           sid == SessionGetByPasscode(pc)
           gate == JoinGateError(sid, "email_code")
           pre == IF gate # "" THEN gate
                  ELSE IF e \notin guest_verifications THEN "Guest email not verified"
                  ELSE ""
           p == Len(participants) + 1
       IN IF pre # ""
          THEN JoinRejected("join_guest", pre, sid, NULL, e, fp)
          ELSE IF CapacityErrorFor(sid, ParticipantsBySessionAndGuestEmail(sid, e)) # ""
          THEN JoinRejected("join_guest",
                            CapacityErrorFor(sid, ParticipantsBySessionAndGuestEmail(sid, e)),
                            sid, NULL, e, fp)
          ELSE IF ParticipantsBySessionAndGuestEmail(sid, e) # {}
          THEN \E existing \in ParticipantsBySessionAndGuestEmail(sid, e) :
                   /\ last' = ResultJ("join_guest", TRUE, "", sid, existing,
                                      NULL, e, fp, NoToken)
                   /\ UNCHANGED <<participants, fingerprints, tokens>>
          ELSE IF FingerprintLimitError(sid, fp, "email_code") # ""
          THEN JoinRejected("join_guest", FingerprintLimitError(sid, fp, "email_code"),
                            sid, NULL, e, fp)
          ELSE /\ Len(participants) < MaxParticipants
               /\ participants' = Append(participants,
                                         NewParticipant(sid, "guest_email", NULL, e))
               /\ fingerprints' = fingerprints \cup {NewFingerprint(sid, fp, "email_code", p)}
               /\ last' = ResultJ("join_guest", TRUE, "", sid, p, NULL, e, fp, NoToken)
               /\ UNCHANGED tokens

\* SessionJoinService.join_sso
JoinSso(pc) ==
    /\ UNCHANGED <<wsVars, sessions, modVars, guest_verifications, pending_codes, users, now, tx>>
    /\ LET sid == SessionGetByPasscode(pc)
           gate == JoinGateError(sid, "sso")
           err == IF gate # "" THEN gate
                  ELSE IF GetSettings(sid).sso_organization_id = NULL
                       THEN "Session has no sso_organization_id configured"
                  ELSE "NotImplementedError"
       IN JoinRejected("join_sso", err, sid, NULL, "", "")

\* SessionParticipantRepository.soft_delete, committed by its caller (kick/ban)
KickParticipant(p) ==
    /\ ParticipantGetById(p) # NULL
    /\ participants' = [participants EXCEPT ![p].is_deleted = TRUE]
    /\ last' = Result("kick", TRUE, "", participants[p].session_id, p)
    /\ UNCHANGED <<wsVars, sessions, modVars, fingerprints, guest_verifications, pending_codes,
                   users, tokens, now, tx>>

\* ------------------------------------------------------ session lifecycle
\* max_participants: absent, or a cap the joins of one session can reach
CapInputs == {NULL, 2}

\* settings a session can be created with
SettingsInputs ==
    {Settings(m, c, NULL) : m \in Modes \ {"sso"}, c \in CapInputs}
        \cup {Settings("sso", NULL, o) : o \in {NULL, 1}}

\* create_session endpoint with SessionRepository.create; the passcode is a
\* code no session holds
CreateSession(settings, pc, u) ==
    /\ WorkspaceGetById(SessionWorkspace) # NULL
    /\ workspaces[SessionWorkspace].user_id = u
    /\ workspaces[SessionWorkspace].status # "archive"
    /\ session_seq + 1 \in SessionIds
    /\ \A o \in DOMAIN sessions : sessions[o].passcode # pc
    /\ sessions' = sessions @@ ((session_seq + 1) :> NewSession(pc, settings))
    /\ session_seq' = session_seq + 1
    /\ last' = Result("create_session", TRUE, "", session_seq + 1, NULL)
    /\ UNCHANGED <<workspaces, modVars, joinVars, tx>>

\* outcome of a session or workspace lifecycle call made by user u
LifecycleResult(op, err, id, u) ==
    ResultJ(op, err = "", err, id, NULL, u, "", "", NoToken)

\* workspace = WorkspaceRepository.get_by_id(session.workspace_id);
\* if not workspace or workspace.user_id != user_id
AccessDenied(u) ==
    \/ WorkspaceGetById(SessionWorkspace) = NULL
    \/ workspaces[SessionWorkspace].user_id # u

\* start_session with the two running-checks swapped for "never started"
StartErrorNoRunningCheck(sid, u) ==
    IF SessionGetById(sid) = NULL THEN "not found"
    ELSE IF AccessDenied(u) THEN "Session not found or access denied"
    ELSE IF workspaces[SessionWorkspace].status = "archive"
         THEN "Cannot start session in archived workspace"
    ELSE IF sessions[sid].status = "archive" THEN "Cannot start archived session"
    ELSE ""

\* SessionService.start_session: the checks before the update
StartError(sid, u) ==
    IF SessionGetById(sid) = NULL THEN "not found"
    ELSE IF AccessDenied(u) THEN "Session not found or access denied"
    ELSE IF workspaces[SessionWorkspace].status = "archive"
         THEN "Cannot start session in archived workspace"
    ELSE IF sessions[sid].status = "archive" THEN "Cannot start archived session"
    ELSE IF ~sessions[sid].is_stopped /\ sessions[sid].start_datetime # NULL
         THEN "Cannot start session that is already running"
    ELSE ""

\* a start that stamps the session on every start
StartDatetimeRestamped(sid) == now

\* the start_datetime start_session leaves: set only if NULL (first start),
\* update_status keeps the stored one when it is given None
StartDatetime(sid) ==
    IF sessions[sid].start_datetime = NULL THEN now ELSE sessions[sid].start_datetime

\* SessionService.start_session
StartSession(sid, u) ==
    /\ UNCHANGED <<wsVars, modVars, joinVars, tx>>
    /\ last' = LifecycleResult("start_session", StartError(sid, u), sid, u)
    /\ IF StartError(sid, u) # ""
       THEN UNCHANGED sessions
       ELSE sessions' = [sessions EXCEPT
                ![sid].status = "active",
                ![sid].start_datetime = StartDatetime(sid),
                ![sid].end_datetime = NULL,
                ![sid].stopped_participant_count = 0,
                ![sid].is_stopped = FALSE]

\* stop_session without the never-started check
StopErrorNoStartedCheck(sid, u, participant_count) ==
    IF SessionGetById(sid) = NULL THEN "not found"
    ELSE IF AccessDenied(u) THEN "Session not found or access denied"
    ELSE IF workspaces[SessionWorkspace].status = "archive"
         THEN "Cannot stop session in archived workspace"
    ELSE IF sessions[sid].status = "archive" THEN "Cannot stop archived session"
    ELSE IF sessions[sid].is_stopped THEN "Cannot stop session that is already stopped"
    ELSE IF participant_count < 0 THEN "Participant count cannot be negative"
    ELSE ""

\* SessionService.stop_session: the checks before the update
StopError(sid, u, participant_count) ==
    IF SessionGetById(sid) = NULL THEN "not found"
    ELSE IF AccessDenied(u) THEN "Session not found or access denied"
    ELSE IF workspaces[SessionWorkspace].status = "archive"
         THEN "Cannot stop session in archived workspace"
    ELSE IF sessions[sid].status = "archive" THEN "Cannot stop archived session"
    ELSE IF sessions[sid].is_stopped THEN "Cannot stop session that is already stopped"
    ELSE IF sessions[sid].start_datetime = NULL
         THEN "Cannot stop session that was never started"
    ELSE IF participant_count < 0 THEN "Participant count cannot be negative"
    ELSE IF now < sessions[sid].start_datetime
         THEN "end_datetime cannot be earlier than start_datetime"
    ELSE ""

\* SessionService.stop_session
StopSession(sid, u, participant_count) ==
    /\ UNCHANGED <<wsVars, modVars, joinVars, tx>>
    /\ last' = LifecycleResult("stop_session", StopError(sid, u, participant_count), sid, u)
    /\ IF StopError(sid, u, participant_count) # ""
       THEN UNCHANGED sessions
       ELSE sessions' = [sessions EXCEPT
                ![sid].status = "active",
                ![sid].end_datetime = now,
                ![sid].stopped_participant_count = participant_count,
                ![sid].is_stopped = TRUE]

InitJoin ==
    /\ workspaces = InitialWorkspaces
    /\ session_seq = 0
    /\ sessions = <<>>
    /\ session_modules = <<>>
    /\ module_seq = 0
    /\ timer_states = <<>>
    /\ question_messages = <<>>
    /\ question_likes = {}
    /\ participants = <<>>
    /\ fingerprints = {}
    /\ guest_verifications \in SUBSET Emails
    /\ pending_codes = {}
    /\ users = RegisteredUsers
    /\ tokens = {}
    /\ now = 1
    /\ tx = <<>>
    /\ last = Result("init", TRUE, "", NULL, NULL)

NextJoin ==
    \/ \E st \in SettingsInputs, pc \in JoinPasscodes : CreateSession(st, pc, WorkspaceOwner)
    \/ \E sid \in SessionIds, u \in UserIds : StartSession(sid, u)
    \/ \E sid \in SessionIds, u \in UserIds : StopSession(sid, u, 0)
    \/ \E pc \in PasscodeInputs, fp \in FingerprintInputs : JoinAnonymous(pc, fp)
    \/ \E pc \in PasscodeInputs, u \in JoinUserInputs : JoinRegistered(pc, u)
    \/ \E pc \in PasscodeInputs, e \in EmailInputs, fp \in FingerprintInputs :
           JoinGuest(pc, e, fp)
    \/ \E pc \in PasscodeInputs : JoinSso(pc)
    \/ \E p \in 1..MaxParticipants : KickParticipant(p)

SpecJoin == InitJoin /\ [][NextJoin]_vars

JoinOps == {"join_anonymous", "join_registered", "join_guest", "join_sso"}
ModeOf(op) == IF op = "join_anonymous" THEN "anonymous"
              ELSE IF op = "join_registered" THEN "registered"
              ELSE IF op = "join_guest" THEN "email_code" ELSE "sso"

\* C4: a join is accepted only when the session exists by passcode, has been
\* started and is not stopped, and the requested mode is the configured one.
JoinOnlyWhenStarted ==
    (last.op \in JoinOps /\ last.ok) =>
        /\ last.session_id \in DOMAIN sessions
        /\ sessions[last.session_id].start_datetime # NULL
        /\ ~sessions[last.session_id].is_stopped
        /\ GetSettings(last.session_id).participant_entry_mode = ModeOf(last.op)

\* the joins that create participant rows
CreatingJoins == {"join_anonymous", "join_registered", "join_guest"}

\* a join step whose call passed the common preconditions and presents an
\* identity the session accepts
PassesPreconditions(r) ==
    /\ r.op \in CreatingJoins
    /\ r.session_id \in DOMAIN sessions
    /\ ~sessions[r.session_id].is_stopped
    /\ GetSettings(r.session_id).participant_entry_mode = ModeOf(r.op)
    /\ r.op = "join_registered" => r.user_id \in DOMAIN users
    /\ r.op = "join_guest" => r.email \in guest_verifications

\* the rows of the identity the call presents (none for an anonymous join)
ExistingFor(r) ==
    IF r.op = "join_registered" THEN ParticipantsBySessionAndUser(r.session_id, r.user_id)
    ELSE IF r.op = "join_guest"
         THEN ParticipantsBySessionAndGuestEmail(r.session_id, r.email)
    ELSE {}

RateLimitHit(r) ==
    /\ r.op \in {"join_anonymous", "join_guest"}
    /\ FingerprintLimitError(r.session_id, r.fingerprint, ModeOf(r.op)) # ""

CountAfter(sid) ==
    Cardinality({p \in DOMAIN participants' :
        participants'[p].session_id = sid /\ ~participants'[p].is_deleted})

CapacityStep ==
    /\ \A sid \in DOMAIN sessions' :
         sessions'[sid].settings.max_participants # NULL =>
             CountAfter(sid) <= sessions'[sid].settings.max_participants
    /\ (PassesPreconditions(last') /\ ExistingFor(last') = {}
        /\ GetSettings(last'.session_id).max_participants # NULL) =>
         LET sid == last'.session_id
             cap == GetSettings(sid).max_participants
             n == Cardinality(ParticipantsOf(sid))
         IN /\ n >= cap =>
                  /\ ~last'.ok
                  /\ last'.err = "Maximum participants reached"
                  /\ participants' = participants
                  /\ fingerprints' = fingerprints
            /\ (n = cap - 1 /\ ~RateLimitHit(last')) =>
                  /\ last'.ok
                  /\ CountAfter(sid) = cap

\* C5: with max_participants = N a join that would create a row fails with the
\* capacity error and creates nothing when the session has N non-deleted
\* participants (never-heartbeating ones included), succeeds at N-1 when the
\* rate limit is not hit, and the number of non-deleted participants never
\* exceeds N.
CapacityEnforced == [][CapacityStep]_vars

C5Witness ==
    /\ last.op \in CreatingJoins
    /\ ~last.ok
    /\ last.err = "Maximum participants reached"
    /\ last.session_id \in DOMAIN sessions
    /\ GetSettings(last.session_id).max_participants # NULL
    /\ Cardinality(ParticipantsOf(last.session_id)) =
           GetSettings(last.session_id).max_participants
    /\ \A p \in ParticipantsOf(last.session_id) : participants[p].last_heartbeat_at = NULL

RejoinStep ==
    (PassesPreconditions(last') /\ ExistingFor(last') # {}) =>
        /\ last'.ok
        /\ ExistingFor(last') = {last'.id}
        /\ participants' = participants
        /\ fingerprints' = fingerprints

\* C6: join_registered with a (session, user), or join_guest with a (session,
\* verified email), that already has a participant returns that participant's
\* id, creates no row, leaves exactly one row for the identity, and succeeds
\* even when the session is at capacity.
JoinIdempotent == [][RejoinStep]_vars

C6Witness ==
    /\ last.op \in {"join_registered", "join_guest"}
    /\ last.ok
    /\ last.id < Len(participants)
    /\ GetSettings(last.session_id).max_participants # NULL
    /\ Cardinality(ParticipantsOf(last.session_id)) >=
           GetSettings(last.session_id).max_participants

\* ======================================================================
\* Two join requests interleaving their statements (read committed; the
\* participant row is inserted when the request commits)
\* ======================================================================

RaceFingerprint == "fp1"

JoinRequest(op, pc, u, e) ==
    [op |-> op, passcode |-> pc, user_id |-> u, email |-> e,
     fingerprint |-> IF op = "join_guest" THEN RaceFingerprint ELSE "",
     sid |-> NULL, pos |-> "gate"]

NoRequest == [JoinRequest("none", "", NULL, "") EXCEPT !.pos = "done"]

RaceRequests ==
    {JoinRequest("join_registered", pc, u, "") : pc \in JoinPasscodes, u \in UserIds}
        \cup {JoinRequest("join_guest", pc, NULL, NormalizeEmail(e)) :
                  pc \in JoinPasscodes, e \in EmailInputs}

RaceDone(t, ok, err, id) ==
    /\ tx' = [tx EXCEPT ![t].pos = "done"]
    /\ last' = ResultJ(tx[t].op, ok, err, tx[t].sid, id, tx[t].user_id, tx[t].email,
                       tx[t].fingerprint, NoToken)

RaceExisting(t) ==
    IF tx[t].op = "join_registered"
    THEN ParticipantsBySessionAndUser(tx[t].sid, tx[t].user_id)
    ELSE ParticipantsBySessionAndGuestEmail(tx[t].sid, tx[t].email)

\* a request arrives
RaceBegin(t, req) ==
    /\ tx[t].pos = "done"
    /\ tx' = [tx EXCEPT ![t] = req]
    /\ UNCHANGED <<wsVars, sessions, modVars, joinVars, last>>

\* get_by_passcode, _check_session_started, _check_entry_mode, identity check
RaceGate(t) ==
    /\ tx[t].pos = "gate"
    /\ LET sid == SessionGetByPasscode(tx[t].passcode)
           gate == JoinGateError(sid, ModeOf(tx[t].op))
           err == IF gate # "" THEN gate
                  ELSE IF tx[t].op = "join_registered" /\ tx[t].user_id \notin DOMAIN users
                       THEN "User not found"
                  ELSE IF tx[t].op = "join_guest" /\ tx[t].email \notin guest_verifications
                       THEN "Guest email not verified"
                  ELSE ""
       IN IF err # ""
          THEN /\ tx' = [tx EXCEPT ![t].pos = "done", ![t].sid = sid]
               /\ last' = ResultJ(tx[t].op, FALSE, err, sid, NULL, tx[t].user_id,
                                  tx[t].email, tx[t].fingerprint, NoToken)
          ELSE /\ tx' = [tx EXCEPT ![t].pos = "lookup", ![t].sid = sid]
               /\ UNCHANGED last
    /\ UNCHANGED <<wsVars, sessions, modVars, joinVars>>

\* get_by_session_and_user / get_by_session_and_guest_email
RaceLookup(t) ==
    /\ tx[t].pos = "lookup"
    /\ IF RaceExisting(t) # {}
       THEN \E existing \in RaceExisting(t) : RaceDone(t, TRUE, "", existing)
       ELSE tx' = [tx EXCEPT ![t].pos = "capacity"] /\ UNCHANGED last
    /\ UNCHANGED <<wsVars, sessions, modVars, joinVars>>

\* _check_max_participants
RaceCapacity(t) ==
    /\ tx[t].pos = "capacity"
    /\ IF MaxParticipantsError(tx[t].sid) # ""
       THEN RaceDone(t, FALSE, MaxParticipantsError(tx[t].sid), NULL)
       ELSE /\ tx' = [tx EXCEPT ![t].pos =
                         IF tx[t].op = "join_guest" THEN "ratelimit" ELSE "insert"]
            /\ UNCHANGED last
    /\ UNCHANGED <<wsVars, sessions, modVars, joinVars>>

\* _enforce_fingerprint_limit
RaceRateLimit(t) ==
    /\ tx[t].pos = "ratelimit"
    /\ IF FingerprintLimitError(tx[t].sid, tx[t].fingerprint, "email_code") # ""
       THEN RaceDone(t, FALSE,
                     FingerprintLimitError(tx[t].sid, tx[t].fingerprint, "email_code"), NULL)
       ELSE tx' = [tx EXCEPT ![t].pos = "insert"] /\ UNCHANGED last
    /\ UNCHANGED <<wsVars, sessions, modVars, joinVars>>

\* SessionParticipantRepository.create, _track_fingerprint_join, db.commit():
\* no constraint of the table rejects the row
RaceInsert(t) ==
    /\ tx[t].pos = "insert"
    /\ Len(participants) < MaxParticipants
    /\ LET p == Len(participants) + 1
       IN /\ participants' = Append(participants,
                 IF tx[t].op = "join_registered"
                 THEN NewParticipant(tx[t].sid, "user", tx[t].user_id, "")
                 ELSE NewParticipant(tx[t].sid, "guest_email", NULL, tx[t].email))
          /\ fingerprints' =
                 IF tx[t].op = "join_guest"
                 THEN fingerprints \cup
                          {NewFingerprint(tx[t].sid, tx[t].fingerprint, "email_code", p)}
                 ELSE fingerprints
          /\ RaceDone(t, TRUE, "", p)
    /\ UNCHANGED <<wsVars, sessions, modVars, guest_verifications, pending_codes, users, tokens, now>>

\* kick/ban committed by another request
RaceKick(p) ==
    /\ ParticipantGetById(p) # NULL
    /\ participants' = [participants EXCEPT ![p].is_deleted = TRUE]
    /\ last' = Result("kick", TRUE, "", participants[p].session_id, p)
    /\ UNCHANGED <<wsVars, sessions, modVars, fingerprints, guest_verifications, pending_codes,
                   users, tokens, now, tx>>

InitJoinRace ==
    /\ workspaces = InitialWorkspaces
    /\ session_seq = 1
    /\ \E m \in {"registered", "email_code"}, c \in CapInputs :
         sessions = (1 :> [NewSession("AAAAAA", Settings(m, c, NULL))
                              EXCEPT !.start_datetime = 1])
    /\ session_modules = <<>>
    /\ module_seq = 0
    /\ timer_states = <<>>
    /\ question_messages = <<>>
    /\ question_likes = {}
    /\ participants = <<>>
    /\ fingerprints = {}
    /\ guest_verifications = Emails
    /\ pending_codes = {}
    /\ users = RegisteredUsers
    /\ tokens = {}
    /\ now = 1
    /\ tx = [t \in Txns |-> NoRequest]
    /\ last = Result("init", TRUE, "", NULL, NULL)

NextJoinRace ==
    \/ \E t \in Txns, req \in RaceRequests : RaceBegin(t, req)
    \/ \E t \in Txns : RaceGate(t)
    \/ \E t \in Txns : RaceLookup(t)
    \/ \E t \in Txns : RaceCapacity(t)
    \/ \E t \in Txns : RaceRateLimit(t)
    \/ \E t \in Txns : RaceInsert(t)
    \/ \E p \in 1..MaxParticipants : RaceKick(p)

SpecJoinRace == InitJoinRace /\ [][NextJoinRace]_vars

\* C7: at most one non-deleted participant row per (session, user_id) and per
\* (session, guest_email), also when two joins of one identity interleave.
OneParticipantPerIdentity ==
    \A sid \in DOMAIN sessions :
        /\ \A u \in DOMAIN users : Cardinality(ParticipantsBySessionAndUser(sid, u)) <= 1
        /\ \A e \in Emails : Cardinality(ParticipantsBySessionAndGuestEmail(sid, e)) <= 1

\* ======================================================================
\* Credentials: user, guest and participant tokens
\* ======================================================================

Codes == {"111111"}
CodeInputs == Codes \cup {"000000"}
AuthPasscodes == {"AAAAAA", "BBBBBB"}

\* verify_token: the signature is one this service made and exp has not passed
VerifyToken(tok) == tok \in tokens /\ tok.exp >= now

\* _email_domain_allowed
EmailDomainAllowed(e, settings) ==
    \/ settings.email_code_domains_whitelist = {}
    \/ "x.org" \in settings.email_code_domains_whitelist

\* AuthService.login with the right password
Login(u) ==
    /\ u \in DOMAIN users
    /\ IF ~users[u].email_verified
       THEN /\ last' = ResultJ("login", FALSE, "Email not verified", NULL, NULL, u,
                               "", "", NoToken)
            /\ UNCHANGED tokens
       ELSE /\ tokens' = tokens \cup {UserToken(u)}
            /\ last' = ResultJ("login", TRUE, "", NULL, NULL, u, "", "", UserToken(u))
    /\ UNCHANGED <<wsVars, sessions, modVars, participants, fingerprints, guest_verifications,
                   pending_codes, users, now, tx>>

\* create_or_update that always adds a row
PendingCreateAlways(sid, e, code, expires_at) ==
    pending_codes
        \cup {[session_id |-> sid, email |-> e, code |-> code, expires_at |-> expires_at]}

\* SessionPendingEmailCodeRepository.create_or_update
PendingCreateOrUpdate(sid, e, code, expires_at) ==
    {c \in pending_codes : ~(c.session_id = sid /\ c.email = e)}
        \cup {[session_id |-> sid, email |-> e, code |-> code, expires_at |-> expires_at]}

\* SessionGuestService.request_code
RequestCode(pc, rawEmail, code) ==
    /\ LET e == NormalizeEmail(rawEmail)
           sid == SessionGetByPasscode(pc)
           err == IF sid = NULL THEN "Session not found"
                  ELSE IF GetMergedSettings(sid).participant_entry_mode # "email_code"
                       THEN "Session is not in email-code entry mode"
                  ELSE IF ~EmailDomainAllowed(e, GetMergedSettings(sid))
                       THEN "Email domain not allowed for this session"
                  ELSE ""
       IN IF err # ""
          THEN /\ last' = ResultJ("request_code", FALSE, err, sid, NULL, NULL, e, "", NoToken)
               /\ UNCHANGED pending_codes
          ELSE /\ pending_codes' =
                      PendingCreateOrUpdate(sid, e, code, now + VerificationCodeExpire)
               /\ last' = ResultJ("request_code", TRUE, "", sid, NULL, NULL, e, "", NoToken)
    /\ UNCHANGED <<wsVars, sessions, modVars, participants, fingerprints, guest_verifications,
                   users, tokens, now, tx>>

\* SessionGuestService.verify_code
VerifyCode(pc, rawEmail, code) ==
    /\ LET e == NormalizeEmail(rawEmail)
           sid == SessionGetByPasscode(pc)
           pending == {c \in pending_codes :
                          c.session_id = sid /\ c.email = e /\ c.code = code}
       IN IF sid = NULL
          THEN /\ last' = ResultJ("verify_code", FALSE, "Session not found", sid, NULL,
                                  NULL, e, "", NoToken)
               /\ UNCHANGED <<pending_codes, guest_verifications, tokens>>
          ELSE IF pending = {}
          THEN /\ last' = ResultJ("verify_code", FALSE,
                                  "Invalid verification code or email not found",
                                  sid, NULL, NULL, e, "", NoToken)
               /\ UNCHANGED <<pending_codes, guest_verifications, tokens>>
          ELSE IF \E c \in pending : c.expires_at < now
          THEN /\ pending_codes' = pending_codes \ pending
               /\ last' = ResultJ("verify_code", FALSE, "Verification code expired",
                                  sid, NULL, NULL, e, "", NoToken)
               /\ UNCHANGED <<guest_verifications, tokens>>
          ELSE /\ pending_codes' = pending_codes \ pending
               /\ guest_verifications' = guest_verifications \cup {e}
               /\ tokens' = tokens \cup {GuestToken(e)}
               /\ last' = ResultJ("verify_code", TRUE, "", sid, NULL, NULL, e, "",
                                  GuestToken(e))
    /\ UNCHANGED <<wsVars, sessions, modVars, participants, fingerprints, users, now, tx>>

\* the GuestEmailVerification row of an email is removed
RevokeGuest(e) ==
    /\ e \in guest_verifications
    /\ guest_verifications' = guest_verifications \ {e}
    /\ last' = ResultJ("revoke_guest", TRUE, "", NULL, NULL, NULL, e, "", NoToken)
    /\ UNCHANGED <<wsVars, sessions, modVars, participants, fingerprints, pending_codes,
                   users, tokens, now, tx>>

QueryOnly == UNCHANGED <<wsVars, sessions, modVars, joinVars, tx>>

\* get_current_user
GetCurrentUser(tok) ==
    /\ QueryOnly
    /\ LET user_id == ParseInt(tok.sub)
           err == IF ~VerifyToken(tok) THEN "Invalid authentication credentials"
                  ELSE IF user_id = NULL THEN "Invalid authentication credentials"
                  ELSE IF user_id \notin DOMAIN users THEN "User not found"
                  ELSE IF ~users[user_id].email_verified THEN "Email not verified"
                  ELSE ""
       IN last' = ResultJ("get_current_user", err = "", err, NULL, NULL,
                          IF err = "" THEN user_id ELSE NULL, "", "", tok)

\* get_current_guest_user
GetCurrentGuestUser(tok) ==
    /\ QueryOnly
    /\ LET err == IF ~VerifyToken(tok) THEN "Invalid authentication credentials"
                  ELSE IF tok.type # "session_guest" THEN "Invalid token type"
                  ELSE IF tok.sub = "" THEN "Invalid authentication credentials"
                  ELSE IF tok.sub \notin guest_verifications
                       THEN "Guest verification not found or revoked"
                  ELSE ""
       IN last' = ResultJ("get_current_guest_user", err = "", err, NULL, NULL, NULL,
                          IF err = "" THEN tok.sub ELSE "", "", tok)

\* the participant-token branch with neither session comparison
ParticipantTokenErrorUnbound(tok, sid) ==
    IF tok.sub = "" THEN "Invalid participant token for this session"
    ELSE IF ParseInt(tok.sub) = NULL THEN "Invalid participant token"
    ELSE IF ParticipantGetById(ParseInt(tok.sub)) = NULL THEN "Participant not found"
    ELSE ""

\* resolve_participant, token_type == "session_participant"
ParticipantTokenError(tok, sid) ==
    IF tok.sub = "" \/ tok.session_id # sid
    THEN "Invalid participant token for this session"
    ELSE IF ParseInt(tok.sub) = NULL THEN "Invalid participant token"
    ELSE IF ParticipantGetById(ParseInt(tok.sub)) = NULL
            \/ participants[ParseInt(tok.sub)].session_id # sid
         THEN "Participant not found"
    ELSE ""

\* the guest-token branch without the verification lookup
GuestTokenErrorNoVerification(tok, sid) ==
    IF tok.sub = "" THEN "Invalid guest token"
    ELSE IF ParticipantsBySessionAndGuestEmail(sid, NormalizeEmail(tok.sub)) = {}
         THEN "Participant not found (join first)"
    ELSE ""

\* resolve_participant, token_type == "session_guest"
GuestTokenError(tok, sid) ==
    IF tok.sub = "" THEN "Invalid guest token"
    ELSE IF NormalizeEmail(tok.sub) \notin guest_verifications
         THEN "Guest verification not found"
    ELSE IF ParticipantsBySessionAndGuestEmail(sid, NormalizeEmail(tok.sub)) = {}
         THEN "Participant not found (join first)"
    ELSE ""

\* resolve_participant, regular user token
UserTokenError(tok, sid) ==
    IF tok.sub = "" THEN "Invalid token"
    ELSE IF ParseInt(tok.sub) = NULL THEN "Invalid token"
    ELSE IF ParticipantsBySessionAndUser(sid, ParseInt(tok.sub)) = {}
         THEN "Participant not found (join first)"
    ELSE ""

\* the rows resolve_participant may return for a token it accepts
ResolvedParticipants(tok, sid) ==
    IF tok.type = "session_participant" THEN {ParseInt(tok.sub)}
    ELSE IF tok.type = "session_guest"
         THEN ParticipantsBySessionAndGuestEmail(sid, NormalizeEmail(tok.sub))
    ELSE ParticipantsBySessionAndUser(sid, ParseInt(tok.sub))

\* SessionParticipantService.resolve_participant
ResolveParticipant(pc, tok) ==
    /\ QueryOnly
    /\ LET sid == SessionGetByPasscode(pc)
           err == IF sid = NULL THEN "Session not found"
                  ELSE IF ~VerifyToken(tok) THEN "Invalid or expired token"
                  ELSE IF tok.type = "session_participant" THEN ParticipantTokenError(tok, sid)
                  ELSE IF tok.type = "session_guest" THEN GuestTokenError(tok, sid)
                  ELSE UserTokenError(tok, sid)
       IN IF err # ""
          THEN last' = ResultJ("resolve_participant", FALSE, err, sid, NULL, NULL,
                               "", "", tok)
          ELSE \E p \in ResolvedParticipants(tok, sid) :
                   last' = ResultJ("resolve_participant", TRUE, "", sid, p, NULL,
                                   "", "", tok)

AuthModes == {<<"anonymous", "anonymous">>, <<"email_code", "email_code">>,
              <<"registered", "anonymous">>}

InitAuth ==
    /\ session_seq = 2
    /\ \E m \in AuthModes :
         /\ workspaces = (SessionWorkspace :>
                [NewWorkspace EXCEPT !.template_settings = Settings(m[1], NULL, NULL)])
         /\ sessions = (1 :> [NewSession("AAAAAA", Settings(m[1], NULL, NULL))
                              EXCEPT !.start_datetime = 1])
                    @@ (2 :> [NewSession("BBBBBB", Settings(m[2], NULL, NULL))
                              EXCEPT !.start_datetime = 1])
    /\ session_modules = <<>>
    /\ module_seq = 0
    /\ timer_states = <<>>
    /\ question_messages = <<>>
    /\ question_likes = {}
    /\ participants = <<>>
    /\ fingerprints = {}
    /\ guest_verifications = {}
    /\ pending_codes = {}
    /\ users = RegisteredUsers
    /\ tokens = {}
    /\ now = 1
    /\ tx = <<>>
    /\ last = Result("init", TRUE, "", NULL, NULL)

NextAuth ==
    \/ \E pc \in AuthPasscodes : JoinAnonymous(pc, "fp1")
    \/ \E pc \in AuthPasscodes, u \in UserIds : JoinRegistered(pc, u)
    \/ \E pc \in AuthPasscodes, e \in Emails : JoinGuest(pc, e, "fp1")
    \/ \E p \in 1..MaxParticipants : KickParticipant(p)
    \/ \E u \in UserIds : Login(u)
    \/ \E pc \in AuthPasscodes, e \in Emails, c \in Codes : RequestCode(pc, e, c)
    \/ \E pc \in AuthPasscodes, e \in Emails, c \in CodeInputs : VerifyCode(pc, e, c)
    \/ \E e \in Emails : RevokeGuest(e)
    \/ \E tok \in tokens : GetCurrentUser(tok)
    \/ \E tok \in tokens : GetCurrentGuestUser(tok)
    \/ \E pc \in AuthPasscodes, tok \in tokens : ResolveParticipant(pc, tok)

SpecAuth == InitAuth /\ [][NextAuth]_vars

\* C8: get_current_user accepts only tokens that carry no type claim; a
\* participant or guest token never authenticates as a user.
OnlyUserTokensAuthenticate ==
    (last.op = "get_current_user" /\ last.ok) => last.tok.type = ""

\* soft-deleted participant rows stay soft-deleted
NoUndelete ==
    \A p \in DOMAIN participants :
        participants[p].is_deleted =>
            (p \in DOMAIN participants' /\ participants'[p].is_deleted)

\* the outcome of a call that presented a revoked credential
RevokedRejected ==
    /\ (/\ last.op = "resolve_participant"
        /\ last.tok.type = "session_participant"
        /\ ParseInt(last.tok.sub) \in DOMAIN participants
        /\ participants[ParseInt(last.tok.sub)].is_deleted) => ~last.ok
    /\ (last.op = "resolve_participant" /\ last.ok) => ~participants[last.id].is_deleted
    /\ (/\ last.op \in {"resolve_participant", "get_current_guest_user", "get_current_user"}
        /\ last.tok.type = "session_guest"
        /\ NormalizeEmail(last.tok.sub) \notin guest_verifications) => ~last.ok

\* C9: a soft-deleted participant stays soft-deleted and every
\* resolve_participant call presenting its token is rejected; while the
\* GuestEmailVerification row of an email is absent every use of that email's
\* guest token is rejected; the tokens themselves are still valid and unexpired.
TokenAuthorityRevocable == [][NoUndelete /\ RevokedRejected']_vars

C9Witness ==
    /\ last.op = "resolve_participant"
    /\ ~last.ok
    /\ last.tok.type = "session_participant"
    /\ VerifyToken(last.tok)
    /\ last.tok.session_id = last.session_id
    /\ participants[ParseInt(last.tok.sub)].is_deleted
    /\ participants[ParseInt(last.tok.sub)].session_id = last.session_id

\* C10: resolve_participant rejects a participant token presented with the
\* passcode of a session other than the one it was issued for, and never
\* returns a participant of a session other than the one addressed.
ParticipantTokenBoundToSession ==
    last.op = "resolve_participant" =>
        /\ (last.tok.type = "session_participant"
            /\ last.tok.session_id # last.session_id) => ~last.ok
        /\ last.ok => participants[last.id].session_id = last.session_id

C10Witness ==
    /\ last.op = "resolve_participant"
    /\ ~last.ok
    /\ last.session_id # NULL
    /\ last.tok.type = "session_participant"
    /\ VerifyToken(last.tok)
    /\ last.tok.session_id # last.session_id
    /\ ParticipantGetById(ParseInt(last.tok.sub)) # NULL

\* ======================================================================
\* Anonymous joins: rate limit and row creation
\* ======================================================================

\* join-fingerprint records of (session, hash, anonymous) inside the window
AnonymousJoinsInWindow(sid, hash) ==
    Cardinality({f \in fingerprints :
        /\ f.session_id = sid
        /\ f.fingerprint_hash = hash
        /\ f.entry_type = "anonymous"
        /\ f.created_at >= now - ParticipantTokenExpire})

\* C11: for every session and fingerprint the successful anonymous joins
\* inside one window never exceed the per-window limit, whatever happened
\* to the participants the earlier joins created.
FingerprintWindowLimit ==
    \A sid \in DOMAIN sessions :
        \A fp \in FingerprintInputs :
            AnonymousJoinsInWindow(sid, HashFingerprint(fp)) <= SessionJoinFingerprintLimit

AnonymousJoinStep ==
    (last'.op = "join_anonymous" /\ last'.ok /\ last' # last) =>
        /\ Len(participants') = Len(participants) + 1
        /\ SubSeq(participants', 1, Len(participants)) = participants
        /\ last'.id = Len(participants')
        /\ participants'[last'.id].participant_type = "anonymous"
        /\ participants'[last'.id].session_id = last'.session_id
        /\ ~participants'[last'.id].is_deleted
        /\ fingerprints \subseteq fingerprints'
        /\ Cardinality(fingerprints' \ fingerprints) = 1
        /\ \A f \in fingerprints' \ fingerprints :
             /\ f.participant_id = last'.id
             /\ f.session_id = last'.session_id
             /\ f.fingerprint_hash = HashFingerprint(last'.fingerprint)
             /\ f.entry_type = "anonymous"
        /\ last'.tok \in tokens'
        /\ last'.tok.type = "session_participant"
        /\ ParseInt(last'.tok.sub) = last'.id
        /\ last'.tok.session_id = last'.session_id

\* C12: every successful join_anonymous creates exactly one new anonymous
\* participant row and reuses none, appends exactly one fingerprint record
\* linked to the new participant, and returns a token bound to the new
\* participant id and the session id.
AnonymousJoinCreatesRow == [][AnonymousJoinStep]_vars

C12Witness ==
    /\ last.op = "join_anonymous"
    /\ last.ok
    /\ last.id = Len(participants)
    /\ \E p \in 1..(last.id - 1) :
         /\ participants[p].session_id = last.session_id
         /\ participants[p].participant_type = "anonymous"
         /\ ~participants[p].is_deleted
         /\ \E f \in fingerprints :
              /\ f.participant_id = p
              /\ f.fingerprint_hash = HashFingerprint(last.fingerprint)

\* ======================================================================
\* Session and workspace lifecycle
\* ======================================================================

MaxTime == 2

\* datetime.now(timezone.utc) moves on
Tick ==
    /\ now < MaxTime
    /\ now' = now + 1
    /\ UNCHANGED <<wsVars, sessions, modVars, participants, fingerprints,
                   guest_verifications, pending_codes, users, tokens, tx, last>>

\* SessionService.archive_session
ArchiveSession(sid, u) ==
    /\ UNCHANGED <<wsVars, modVars, joinVars, tx>>
    /\ LET err == IF sid \notin DOMAIN sessions THEN "not found"
                  ELSE IF sessions[sid].is_deleted THEN "Cannot archive deleted session"
                  ELSE IF AccessDenied(u) THEN "Session not found or access denied"
                  ELSE ""
       IN /\ last' = LifecycleResult("archive_session", err, sid, u)
          /\ IF err # ""
             THEN UNCHANGED sessions
             ELSE sessions' = [sessions EXCEPT ![sid].status = "archive"]

\* SessionService.unarchive_session
UnarchiveSession(sid, u) ==
    /\ UNCHANGED <<wsVars, modVars, joinVars, tx>>
    /\ LET err == IF SessionGetById(sid) = NULL THEN "not found"
                  ELSE IF AccessDenied(u) THEN "Session not found or access denied"
                  ELSE IF workspaces[SessionWorkspace].status = "archive"
                       THEN "Cannot unarchive session in archived workspace"
                  ELSE ""
       IN /\ last' = LifecycleResult("unarchive_session", err, sid, u)
          /\ IF err # ""
             THEN UNCHANGED sessions
             ELSE sessions' = [sessions EXCEPT ![sid].status = "active"]

\* SessionService.restore_session
RestoreSession(sid, u) ==
    /\ UNCHANGED <<wsVars, modVars, joinVars, tx>>
    /\ LET err == IF sid \notin DOMAIN sessions THEN "not found"
                  ELSE IF ~sessions[sid].is_deleted
                       THEN "Cannot restore session that is not deleted"
                  ELSE IF AccessDenied(u) THEN "Session not found or access denied"
                  ELSE ""
       IN /\ last' = LifecycleResult("restore_session", err, sid, u)
          /\ IF err # ""
             THEN UNCHANGED sessions
             ELSE sessions' = [sessions EXCEPT ![sid].is_deleted = FALSE]

\* delete_session without the running-check
DeleteErrorNoRunningCheck(sid, u, hard) ==
    IF SessionGetById(sid) = NULL THEN "not found"
    ELSE IF AccessDenied(u) THEN "Session not found or access denied"
    ELSE ""

\* SessionService.delete_session: the checks before the deletion
DeleteError(sid, u, hard) ==
    IF SessionGetById(sid) = NULL THEN "not found"
    ELSE IF AccessDenied(u) THEN "Session not found or access denied"
    ELSE IF ~sessions[sid].is_stopped
         THEN "Cannot delete session that is currently running"
    ELSE ""

\* db.delete(session): the row goes, and with it the rows whose session_id
\* foreign key is ON DELETE CASCADE
SessionsWithout(gone) == [x \in DOMAIN sessions \ gone |-> sessions[x]]

CascadeSessions(gone) ==
    /\ session_modules' = [m \in {x \in DOMAIN session_modules :
                                     session_modules[x].session_id \notin gone}
                              |-> session_modules[m]]
    /\ timer_states' = TimerStatesOf({x \in DOMAIN session_modules :
                                         session_modules[x].session_id \notin gone})
    /\ CascadeQuestions({x \in DOMAIN session_modules :
                             session_modules[x].session_id \notin gone})
    /\ participants' = [p \in {x \in DOMAIN participants :
                                  participants[x].session_id \notin gone}
                           |-> participants[p]]
    /\ fingerprints' = {f \in fingerprints : f.session_id \notin gone}
    /\ pending_codes' = {c \in pending_codes : c.session_id \notin gone}
    /\ UNCHANGED <<module_seq, guest_verifications, users, tokens, now>>

\* SessionService.delete_session with SessionRepository.delete / soft_delete
DeleteSession(sid, u, hard) ==
    /\ UNCHANGED <<wsVars, tx>>
    /\ last' = LifecycleResult(IF hard THEN "delete_session_permanent" ELSE "delete_session",
                                DeleteError(sid, u, hard), sid, u)
    /\ IF DeleteError(sid, u, hard) # ""
       THEN UNCHANGED <<sessions, modVars, joinVars>>
       ELSE IF hard
       THEN sessions' = SessionsWithout({sid}) /\ CascadeSessions({sid})
       ELSE /\ sessions' = [sessions EXCEPT ![sid].is_deleted = TRUE]
            /\ UNCHANGED <<modVars, joinVars>>

\* SessionRepository.get_by_workspace_id(status=...), non-deleted rows
SessionsByStatus(status) ==
    {x \in DOMAIN sessions : ~sessions[x].is_deleted /\ sessions[x].status = status}

\* WorkspaceService.archive_workspace
ArchiveWorkspace(u) ==
    /\ UNCHANGED <<session_seq, modVars, joinVars, tx>>
    /\ LET err == IF WorkspaceGetById(SessionWorkspace) = NULL THEN "not found"
                  ELSE IF workspaces[SessionWorkspace].user_id # u
                       THEN "Workspace not found or access denied"
                  ELSE ""
       IN /\ last' = LifecycleResult("archive_workspace", err, SessionWorkspace, u)
          /\ IF err # ""
             THEN UNCHANGED <<workspaces, sessions>>
             ELSE /\ sessions' = [x \in DOMAIN sessions |->
                                     IF x \in SessionsByStatus("active")
                                     THEN [sessions[x] EXCEPT !.status = "archive"]
                                     ELSE sessions[x]]
                  /\ workspaces' = [workspaces EXCEPT ![SessionWorkspace].status = "archive"]

\* WorkspaceService.unarchive_workspace
UnarchiveWorkspace(u) ==
    /\ UNCHANGED <<session_seq, sessions, modVars, joinVars, tx>>
    /\ LET err == IF WorkspaceGetById(SessionWorkspace) = NULL THEN "not found"
                  ELSE IF workspaces[SessionWorkspace].user_id # u
                       THEN "Workspace not found or access denied"
                  ELSE ""
       IN /\ last' = LifecycleResult("unarchive_workspace", err, SessionWorkspace, u)
          /\ IF err # ""
             THEN UNCHANGED workspaces
             ELSE workspaces' = [workspaces EXCEPT ![SessionWorkspace].status = "active"]

\* WorkspaceService.restore_workspace
RestoreWorkspace(u) ==
    /\ UNCHANGED <<session_seq, sessions, modVars, joinVars, tx>>
    /\ LET err == IF SessionWorkspace \notin DOMAIN workspaces THEN "not found"
                  ELSE IF ~workspaces[SessionWorkspace].is_deleted
                       THEN "Cannot restore workspace that is not deleted"
                  ELSE IF workspaces[SessionWorkspace].user_id # u
                       THEN "Workspace not found or access denied"
                  ELSE ""
       IN /\ last' = LifecycleResult("restore_workspace", err, SessionWorkspace, u)
          /\ IF err # ""
             THEN UNCHANGED workspaces
             ELSE workspaces' = [workspaces EXCEPT ![SessionWorkspace].is_deleted = FALSE]

\* delete_workspace: running_sessions = [s for s in active_sessions if not s.is_stopped]
RunningSessions == {x \in SessionsByStatus("active") : ~sessions[x].is_stopped}

\* WorkspaceService.delete_workspace: the checks before the deletion
DeleteWorkspaceError(u, hard) ==
    IF WorkspaceGetById(SessionWorkspace) = NULL THEN "not found"
    ELSE IF workspaces[SessionWorkspace].user_id # u
         THEN "Workspace not found or access denied"
    ELSE IF ~hard /\ RunningSessions # {}
         THEN "Cannot delete workspace with active running session(s)"
    ELSE ""

\* WorkspaceService.delete_workspace with WorkspaceRepository.delete / soft_delete
DeleteWorkspace(u, hard) ==
    /\ UNCHANGED <<session_seq, tx>>
    /\ last' = LifecycleResult(IF hard THEN "delete_workspace_permanent" ELSE "delete_workspace",
                                DeleteWorkspaceError(u, hard), SessionWorkspace, u)
    /\ IF DeleteWorkspaceError(u, hard) # ""
       THEN UNCHANGED <<workspaces, sessions, modVars, joinVars>>
       ELSE IF hard
       THEN /\ workspaces' = [w \in DOMAIN workspaces \ {SessionWorkspace} |-> workspaces[w]]
            /\ sessions' = SessionsWithout(DOMAIN sessions)
            /\ CascadeSessions(DOMAIN sessions)
       ELSE /\ workspaces' = [workspaces EXCEPT ![SessionWorkspace].is_deleted = TRUE]
            /\ UNCHANGED <<sessions, modVars, joinVars>>

\* participant_count values a caller passes to stop_session
CountInputs == {-1, 2}

InitLifecycle ==
    /\ workspaces = InitialWorkspaces
    /\ session_seq = 0
    /\ sessions = <<>>
    /\ session_modules = <<>>
    /\ module_seq = 0
    /\ timer_states = <<>>
    /\ question_messages = <<>>
    /\ question_likes = {}
    /\ participants = <<>>
    /\ fingerprints = {}
    /\ guest_verifications = {}
    /\ pending_codes = {}
    /\ users = RegisteredUsers
    /\ tokens = {}
    /\ now = 1
    /\ tx = <<>>
    /\ last = Result("init", TRUE, "", NULL, NULL)

NextLifecycle ==
    \/ \E pc \in Passcodes, u \in UserIds : CreateSession(DefaultSettings, pc, u)
    \/ \E sid \in SessionIds, u \in UserIds : StartSession(sid, u)
    \/ \E sid \in SessionIds, u \in UserIds, c \in CountInputs : StopSession(sid, u, c)
    \/ \E sid \in SessionIds, u \in UserIds : ArchiveSession(sid, u)
    \/ \E sid \in SessionIds, u \in UserIds : UnarchiveSession(sid, u)
    \/ \E sid \in SessionIds, u \in UserIds, hard \in BOOLEAN : DeleteSession(sid, u, hard)
    \/ \E sid \in SessionIds, u \in UserIds : RestoreSession(sid, u)
    \/ \E u \in UserIds : ArchiveWorkspace(u)
    \/ \E u \in UserIds : UnarchiveWorkspace(u)
    \/ \E u \in UserIds, hard \in BOOLEAN : DeleteWorkspace(u, hard)
    \/ \E u \in UserIds : RestoreWorkspace(u)

SpecLifecycle == InitLifecycle /\ [][NextLifecycle]_vars

\* sessions created, started and stopped while the clock moves on
NextRun ==
    \/ \E pc \in Passcodes, u \in UserIds : CreateSession(DefaultSettings, pc, u)
    \/ \E sid \in SessionIds, u \in UserIds : StartSession(sid, u)
    \/ \E sid \in SessionIds, u \in UserIds, c \in CountInputs : StopSession(sid, u, c)
    \/ \E sid \in SessionIds, u \in UserIds : ArchiveSession(sid, u)
    \/ \E sid \in SessionIds, u \in UserIds : UnarchiveSession(sid, u)
    \/ Tick

SpecRun == InitLifecycle /\ [][NextRun]_vars

\* HTTP status the session endpoints give a service result: None and an error
\* without one of the endpoint's keywords give 404, the other errors 400
NotFoundErrors ==
    {"not found", "Session not found or access denied",
     "end_datetime cannot be earlier than start_datetime"}

HttpStatus(r) == IF r.ok THEN 200 ELSE IF r.err \in NotFoundErrors THEN 404 ELSE 400

\* every variable but the result of the latest call
dataVars == <<workspaces, session_seq, sessions, session_modules, module_seq,
              timer_states, question_messages, question_likes, participants, fingerprints, guest_verifications, pending_codes,
              users, tokens, now, tx>>

\* the session was started and has not been stopped since
Running(sid) ==
    /\ sid \in DOMAIN sessions
    /\ ~sessions[sid].is_stopped
    /\ sessions[sid].start_datetime # NULL

\* C13: a start of a session that was started and not stopped since fails and
\* changes no field; a start succeeds only on a session that is stopped or was
\* never started, is neither archived nor deleted, in a workspace that is
\* neither archived nor deleted.
StartStep ==
    \A sid \in SessionIds, u \in UserIds :
        StartSession(sid, u) =>
            /\ Running(sid) => ~last'.ok /\ UNCHANGED dataVars
            /\ last'.ok =>
                /\ sid \in DOMAIN sessions
                /\ sessions[sid].is_stopped \/ sessions[sid].start_datetime = NULL
                /\ sessions[sid].status # "archive"
                /\ ~sessions[sid].is_deleted
                /\ SessionWorkspace \in DOMAIN workspaces
                /\ workspaces[SessionWorkspace].status # "archive"
                /\ ~workspaces[SessionWorkspace].is_deleted

StartOnlyWhenNotRunning == [][StartStep]_vars

\* the owner's second start in a row was refused
C13Witness ==
    /\ last.op = "start_session"
    /\ last.user_id = WorkspaceOwner
    /\ last.err = "Cannot start session that is already running"
    /\ Running(last.session_id)
    /\ sessions[last.session_id].status = "active"

\* C14: a stop of a never-started or already-stopped session fails and changes
\* nothing; a stop succeeds only on a started, not stopped session, and then
\* end_datetime is now and not before start_datetime, stopped_participant_count
\* is the caller's count, is_stopped is true and status is still active.
StopStep ==
    \A sid \in SessionIds, u \in UserIds, c \in CountInputs :
        StopSession(sid, u, c) =>
            /\ (sid \in DOMAIN sessions
                  /\ (sessions[sid].is_stopped \/ sessions[sid].start_datetime = NULL))
                  => ~last'.ok /\ UNCHANGED dataVars
            /\ last'.ok =>
                /\ Running(sid)
                /\ sessions[sid].status = "active"
                /\ sessions'[sid].end_datetime = now
                /\ sessions'[sid].end_datetime >= sessions'[sid].start_datetime
                /\ sessions'[sid].start_datetime = sessions[sid].start_datetime
                /\ sessions'[sid].stopped_participant_count = c
                /\ sessions'[sid].is_stopped
                /\ sessions'[sid].status = "active"

StopOnlyWhenRunning == [][StopStep]_vars

\* a session stopped later than it was started, with the caller's count
C14Witness ==
    /\ last.op = "stop_session"
    /\ last.ok
    /\ sessions[last.session_id].is_stopped
    /\ sessions[last.session_id].end_datetime > sessions[last.session_id].start_datetime
    /\ sessions[last.session_id].stopped_participant_count = 2

\* C15: a soft delete of a session with is_stopped = false fails and changes
\* nothing, and the owner's soft delete of a stopped session succeeds and sets
\* only is_deleted (the session and its workspace being ones the owner can
\* still address, that is, not deleted themselves).
SoftDeleteStep ==
    \A sid \in SessionIds, u \in UserIds :
        DeleteSession(sid, u, FALSE) =>
            /\ (sid \in DOMAIN sessions /\ ~sessions[sid].is_stopped)
                  => ~last'.ok /\ UNCHANGED dataVars
            /\ (sid \in DOMAIN sessions /\ sessions[sid].is_stopped
                  /\ ~sessions[sid].is_deleted
                  /\ SessionWorkspace \in DOMAIN workspaces
                  /\ ~workspaces[SessionWorkspace].is_deleted
                  /\ workspaces[SessionWorkspace].user_id = u)
                  => /\ last'.ok
                     /\ sessions' = [sessions EXCEPT ![sid].is_deleted = TRUE]

SoftDeleteOnlyWhenStopped == [][SoftDeleteStep]_vars

\* the owner's soft delete of a running session was refused
C15Witness ==
    /\ last.op = "delete_session"
    /\ last.user_id = WorkspaceOwner
    /\ last.err = "Cannot delete session that is currently running"
    /\ Running(last.session_id)
    /\ \E x \in DOMAIN sessions : sessions[x].is_deleted /\ sessions[x].is_stopped

\* C16: the owner's permanent deletion removes a running session, and a
\* deletion that is not permanent never deletes a running session.
HardDeleteStep ==
    \A sid \in SessionIds, u \in UserIds :
        /\ DeleteSession(sid, u, TRUE) =>
              ((Running(sid) /\ ~sessions[sid].is_deleted /\ ~AccessDenied(u))
                  => last'.ok /\ sid \notin DOMAIN sessions')
        /\ DeleteSession(sid, u, FALSE) =>
              (Running(sid) => ~last'.ok /\ UNCHANGED dataVars)

HardDeleteBypassesRunningCheck == [][HardDeleteStep]_vars

\* C17: a workspace delete, soft or permanent, is refused and changes nothing
\* when some non-deleted session of the workspace is running, whether that
\* session's status is active or archive.
DeleteWorkspaceStep ==
    \A u \in UserIds, hard \in BOOLEAN :
        DeleteWorkspace(u, hard) =>
            ((\E x \in DOMAIN sessions : Running(x) /\ ~sessions[x].is_deleted)
                => ~last'.ok /\ UNCHANGED dataVars)

WorkspaceDeleteBlockedByRunning == [][DeleteWorkspaceStep]_vars

\* C18: for a caller who is not the workspace owner every session lifecycle
\* call answers 404, as for a session that does not exist, and changes nothing.
NonOwnerStep ==
    \A sid \in SessionIds, u \in UserIds \ {WorkspaceOwner} :
        (\/ StartSession(sid, u)
         \/ \E c \in CountInputs : StopSession(sid, u, c)
         \/ ArchiveSession(sid, u)
         \/ UnarchiveSession(sid, u)
         \/ \E hard \in BOOLEAN : DeleteSession(sid, u, hard)
         \/ RestoreSession(sid, u))
            => HttpStatus(last') = 404 /\ UNCHANGED dataVars

NonOwnerGetsNotFound == [][NonOwnerStep]_vars

\* ======================================================================
\* Timer module state
\* ======================================================================
\* the clock of this part counts seconds

\* remaining_seconds is a nullable integer and 0 is a value: None is the empty
\* sequence, r is <<r>>
NoSeconds == <<>>
Seconds(r) == <<r>>

\* PauseRequest.remaining_seconds (ge=0) and the modules' duration_seconds
RemainingInputs == {0, 1, 2}
Durations == {1, 2}
TimerModuleInputs == {1, 2, 3, 4}

\* session 1 with two Timer modules and a quiz module
TimerModules ==
    [m \in {1, 2, 3} |->
        [session_id |-> 1, is_active |-> FALSE, is_deleted |-> FALSE,
         module_type |-> IF m = 3 THEN "quiz" ELSE "timer"]]

\* SessionModuleTimerStateRepository.get_or_create: the default row
NewTimerState == [is_paused |-> TRUE, end_at |-> NULL, remaining_seconds |-> NoSeconds]

TimerGetOrCreate(m) == IF m \in DOMAIN timer_states THEN timer_states[m] ELSE NewTimerState

\* SessionModuleTimerStateRepository.start
TimerStarted(state, duration_seconds) ==
    [state EXCEPT !.end_at = now + duration_seconds,
                  !.remaining_seconds = NoSeconds,
                  !.is_paused = FALSE]

\* pause that leaves the deadline in place
TimerPausedKeepsEndAt(state, remaining_seconds) ==
    [state EXCEPT !.remaining_seconds = Seconds(remaining_seconds),
                  !.is_paused = TRUE]

\* SessionModuleTimerStateRepository.pause
TimerPaused(state, remaining_seconds) ==
    [state EXCEPT !.remaining_seconds = Seconds(remaining_seconds),
                  !.end_at = NULL,
                  !.is_paused = TRUE]

\* resume that leaves remaining_seconds in place
TimerResumedKeepsRemaining(state) ==
    [state EXCEPT !.end_at = now + state.remaining_seconds[1],
                  !.is_paused = FALSE]

\* SessionModuleTimerStateRepository.resume
TimerResumed(state) ==
    [state EXCEPT !.end_at = now + state.remaining_seconds[1],
                  !.remaining_seconds = NoSeconds,
                  !.is_paused = FALSE]

\* SessionModuleTimerStateRepository.reset
TimerCleared(state) ==
    [state EXCEPT !.is_paused = TRUE, !.end_at = NULL, !.remaining_seconds = NoSeconds]

\* SessionTimerService._check_lecturer_access, then _validate_timer_module
TimerAccessError(sid, m, u) ==
    IF SessionGetById(sid) = NULL THEN "Session not found"
    ELSE IF AccessDenied(u) THEN "Not authorized"
    ELSE IF m \notin DOMAIN session_modules \/ session_modules[m].is_deleted
         THEN "Module not found"
    ELSE IF session_modules[m].session_id # sid THEN "Module not in this session"
    ELSE IF session_modules[m].module_type # "timer" THEN "Module is not a Timer module"
    ELSE ""

TimerFrame == UNCHANGED <<wsVars, sessions, session_modules, module_seq, qVars, joinVars, tx>>

\* SessionTimerService.start
TimerStart(sid, m, u, duration_seconds) ==
    /\ TimerFrame
    /\ LET err == TimerAccessError(sid, m, u)
       IN /\ last' = Result("timer_start", err = "", err, sid, m)
          /\ IF err # ""
             THEN UNCHANGED timer_states
             ELSE timer_states' = [x \in DOMAIN timer_states \cup {m} |->
                                      IF x = m
                                      THEN TimerStarted(TimerGetOrCreate(m), duration_seconds)
                                      ELSE timer_states[x]]

\* SessionTimerService.pause
TimerPause(sid, m, u, remaining_seconds) ==
    /\ TimerFrame
    /\ LET err == IF TimerAccessError(sid, m, u) # "" THEN TimerAccessError(sid, m, u)
                  ELSE IF m \notin DOMAIN timer_states
                       THEN "Timer state not found (start timer first)"
                  ELSE ""
       IN /\ last' = Result("timer_pause", err = "", err, sid, m)
          /\ IF err # ""
             THEN UNCHANGED timer_states
             ELSE timer_states' = [timer_states EXCEPT
                                      ![m] = TimerPaused(@, remaining_seconds)]

\* SessionTimerService.resume
TimerResume(sid, m, u) ==
    /\ TimerFrame
    /\ LET err == IF TimerAccessError(sid, m, u) # "" THEN TimerAccessError(sid, m, u)
                  ELSE IF m \notin DOMAIN timer_states
                            \/ timer_states[m].remaining_seconds = NoSeconds
                       THEN "Timer state not found or not paused"
                  ELSE ""
       IN /\ last' = Result("timer_resume", err = "", err, sid, m)
          /\ IF err # ""
             THEN UNCHANGED timer_states
             ELSE timer_states' = [timer_states EXCEPT ![m] = TimerResumed(@)]

\* SessionTimerService.reset: without a row the default state is answered
TimerReset(sid, m, u) ==
    /\ TimerFrame
    /\ LET err == TimerAccessError(sid, m, u)
       IN /\ last' = Result("timer_reset", err = "", err, sid, m)
          /\ IF err # "" \/ m \notin DOMAIN timer_states
             THEN UNCHANGED timer_states
             ELSE timer_states' = [timer_states EXCEPT ![m] = TimerCleared(@)]

\* session 1 is there with its modules; no timer was ever started
InitTimer ==
    /\ workspaces = InitialWorkspaces
    /\ session_seq = 1
    /\ sessions = (1 :> NewSession("AAAAAA", DefaultSettings))
    /\ session_modules = TimerModules
    /\ module_seq = 3
    /\ timer_states = <<>>
    /\ question_messages = <<>>
    /\ question_likes = {}
    /\ participants = <<>>
    /\ fingerprints = {}
    /\ guest_verifications = {}
    /\ pending_codes = {}
    /\ users = RegisteredUsers
    /\ tokens = {}
    /\ now = 1
    /\ tx = <<>>
    /\ last = Result("init", TRUE, "", NULL, NULL)

NextTimer ==
    \/ \E sid \in SessionIds, m \in TimerModuleInputs, u \in UserIds, d \in Durations :
           TimerStart(sid, m, u, d)
    \/ \E sid \in SessionIds, m \in TimerModuleInputs, u \in UserIds, r \in RemainingInputs :
           TimerPause(sid, m, u, r)
    \/ \E sid \in SessionIds, m \in TimerModuleInputs, u \in UserIds : TimerResume(sid, m, u)
    \/ \E sid \in SessionIds, m \in TimerModuleInputs, u \in UserIds : TimerReset(sid, m, u)
    \/ Tick

SpecTimer == InitTimer /\ [][NextTimer]_vars

\* C19 as stated: every timer row has exactly one of end_at and
\* remaining_seconds non-null.
ExactlyOneTimerField ==
    \A m \in DOMAIN timer_states :
        (timer_states[m].end_at # NULL) # (timer_states[m].remaining_seconds # NoSeconds)

\* C19: every timer row has at most one of end_at and remaining_seconds
\* non-null, end_at is non-null exactly while the timer is not paused, and both
\* are null only in the idle state that get-or-create and reset leave.
TimerFieldsExclusive ==
    \A m \in DOMAIN timer_states :
        /\ ~(timer_states[m].end_at # NULL /\ timer_states[m].remaining_seconds # NoSeconds)
        /\ (timer_states[m].end_at # NULL) <=> ~timer_states[m].is_paused

\* one timer was just reset to idle while another is paused with a remainder
C19Witness ==
    /\ last.op = "timer_reset"
    /\ last.ok
    /\ last.id \in DOMAIN timer_states
    /\ timer_states[last.id] = NewTimerState
    /\ \E m \in DOMAIN timer_states :
          /\ timer_states[m].remaining_seconds # NoSeconds
          /\ timer_states[m].end_at = NULL

\* the timer row is paused with a remaining value
PausedWithRemaining(m) ==
    /\ m \in DOMAIN timer_states
    /\ timer_states[m].is_paused
    /\ timer_states[m].remaining_seconds # NoSeconds

\* C20: a pause with remaining r leaves end_at null, remaining_seconds = r and
\* is_paused true; a resume of a timer paused with remaining r leaves
\* remaining_seconds null, end_at = now + r (later than now for r > 0) and
\* is_paused false; a resume of a timer that is not paused with a remaining
\* value (running, reset, never started) fails and changes nothing.
TimerStep ==
    \A sid \in SessionIds, m \in TimerModuleInputs, u \in UserIds :
        /\ \A r \in RemainingInputs :
              (last'.op = "timer_pause" /\ last'.ok /\ TimerPause(sid, m, u, r)) =>
                  timer_states'[m] = [is_paused |-> TRUE, end_at |-> NULL,
                                      remaining_seconds |-> Seconds(r)]
        /\ (last'.op = "timer_resume" /\ TimerResume(sid, m, u)) =>
              IF PausedWithRemaining(m)
              THEN /\ TimerAccessError(sid, m, u) = "" => last'.ok
                   /\ last'.ok =>
                        /\ timer_states'[m] =
                              [is_paused |-> FALSE,
                               end_at |-> now + timer_states[m].remaining_seconds[1],
                               remaining_seconds |-> NoSeconds]
                        /\ timer_states[m].remaining_seconds[1] > 0
                              => timer_states'[m].end_at > now
              ELSE ~last'.ok /\ UNCHANGED dataVars

TimerTransitions == [][TimerStep]_vars

\* a timer paused with two seconds left was resumed after the clock moved on
C20Witness ==
    /\ last.op = "timer_resume"
    /\ last.ok
    /\ now > 1
    /\ timer_states[last.id].end_at = now + 2
    /\ timer_states[last.id].remaining_seconds = NoSeconds
    /\ ~timer_states[last.id].is_paused

\* ======================================================================
\* Questions module
\* ======================================================================

\* most message rows one behaviour creates
MaxMessages == 2

\* QUESTIONS_LENGTH_LIMITS
QuestionsLengthLimits == [compact |-> 100, moderate |-> 250, extended |-> 500]

\* QuestionsModuleSettings: the field defaults
QuestionsDefaults ==
    [length_limit_mode |-> "moderate", likes_enabled |-> TRUE, allow_anonymous |-> FALSE,
     cooldown_enabled |-> FALSE, cooldown_seconds |-> 30,
     allow_participant_answers |-> TRUE, max_questions_total |-> NULL]

\* get_questions_settings: the stored dict with the defaults applied
GetQuestionsSettings(settings) ==
    [k \in DOMAIN QuestionsDefaults |->
        IF k \in DOMAIN settings THEN settings[k] ELSE QuestionsDefaults[k]]

\* get_questions_max_length
GetQuestionsMaxLength(opts) == QuestionsLengthLimits[opts.length_limit_mode]

\* stored settings of the Questions module under test
QuestionsSettingsInput(i) ==
    CASE i = 1 -> <<>>
      [] i = 2 -> [length_limit_mode |-> "compact", allow_participant_answers |-> FALSE,
                   max_questions_total |-> 2, cooldown_enabled |-> TRUE,
                   cooldown_seconds |-> 1]
      [] i = 3 -> [likes_enabled |-> FALSE, max_questions_total |-> 1,
                   cooldown_enabled |-> TRUE, cooldown_seconds |-> 0]

\* session 1 with a Questions module and a Timer module, session 2 with a
\* Questions module
QuestionModules(i) ==
    [m \in {1, 2, 3} |->
        [session_id |-> IF m = 2 THEN 2 ELSE 1, is_active |-> FALSE, is_deleted |-> FALSE,
         module_type |-> IF m = 3 THEN "timer" ELSE "questions",
         settings |-> IF m = 1 THEN QuestionsSettingsInput(i) ELSE <<>>]]

\* str.strip(): leading and trailing whitespace removed
RECURSIVE StripLeft(_)
StripLeft(s) == IF s # <<>> /\ Head(s) = " " THEN StripLeft(Tail(s)) ELSE s

RECURSIVE StripRight(_)
StripRight(s) ==
    IF s # <<>> /\ s[Len(s)] = " " THEN StripRight(SubSeq(s, 1, Len(s) - 1)) ELSE s

Strip(s) == StripRight(StripLeft(s))

\* message texts: empty, blank, short, at the compact limit once stripped,
\* and one character over it
Chars(n, c) == [i \in 1..n |-> c]
ContentInputs ==
    {<<>>, <<" ", " ">>, <<" ", "h", "i", " ">>,
     Chars(100, "x") \o <<" ">>, Chars(101, "x")}

\* SessionQuestionMessageRepository.get_by_id
MessageGetById(id) ==
    IF id \in DOMAIN question_messages /\ ~question_messages[id].is_deleted
    THEN id ELSE NULL

\* the non-deleted top-level messages of a module
TopLevelOf(m) ==
    {x \in DOMAIN question_messages :
        /\ question_messages[x].session_module_id = m
        /\ ~question_messages[x].is_deleted
        /\ question_messages[x].parent_id = NULL}

\* count_top_level_by_module that counts replies too
CountTopLevelWithReplies(m) ==
    Cardinality({x \in DOMAIN question_messages :
                    /\ question_messages[x].session_module_id = m
                    /\ ~question_messages[x].is_deleted})

\* SessionQuestionMessageRepository.count_top_level_by_module
CountTopLevelByModule(m) == Cardinality(TopLevelOf(m))

\* SessionQuestionMessageRepository.get_last_by_participant_in_module: the
\* created_at of the participant's most recent message, NULL when none
LastCreatedByParticipant(m, p) ==
    LET mine == {question_messages[x].created_at :
                    x \in {y \in DOMAIN question_messages :
                              /\ question_messages[y].session_module_id = m
                              /\ question_messages[y].participant_id = p
                              /\ ~question_messages[y].is_deleted}}
    IN IF mine = {} THEN NULL ELSE CHOOSE t \in mine : \A o \in mine : o <= t

\* _validate_questions_module
QuestionsModuleError(m, sid) ==
    IF m \notin DOMAIN session_modules \/ session_modules[m].is_deleted
    THEN "Module not found"
    ELSE IF session_modules[m].session_id # sid THEN "Module not in this session"
    ELSE IF session_modules[m].module_type # "questions"
         THEN "Module is not a Questions module"
    ELSE ""

\* the checks of create_message with the cooldown tested first
MessageChecksCooldownFirst(m, p, content, parent_id) ==
    LET opts == GetQuestionsSettings(session_modules[m].settings)
        text == Strip(content)
        last_at == LastCreatedByParticipant(m, p)
    IN <<IF opts.cooldown_enabled /\ opts.cooldown_seconds > 0
            /\ last_at # NULL /\ now - last_at < opts.cooldown_seconds
         THEN "Please wait before posting again" ELSE "",
         IF text = <<>> THEN "Content is required" ELSE "",
         IF Len(text) > GetQuestionsMaxLength(opts)
         THEN "Message exceeds maximum length" ELSE "",
         IF parent_id # NULL /\ ~opts.allow_participant_answers
         THEN "Participant answers are disabled for this module" ELSE "",
         IF parent_id = NULL /\ opts.max_questions_total # NULL
            /\ CountTopLevelByModule(m) >= opts.max_questions_total
         THEN "Maximum number of questions reached" ELSE "">>

\* the checks of create_message after the module's, in the order of the code
MessageChecks(m, p, content, parent_id) ==
    LET opts == GetQuestionsSettings(session_modules[m].settings)
        text == Strip(content)
        last_at == LastCreatedByParticipant(m, p)
    IN <<IF text = <<>> THEN "Content is required" ELSE "",
         IF Len(text) > GetQuestionsMaxLength(opts)
         THEN "Message exceeds maximum length" ELSE "",
         IF parent_id # NULL /\ ~opts.allow_participant_answers
         THEN "Participant answers are disabled for this module" ELSE "",
         IF parent_id = NULL /\ opts.max_questions_total # NULL
            /\ CountTopLevelByModule(m) >= opts.max_questions_total
         THEN "Maximum number of questions reached" ELSE "",
         IF opts.cooldown_enabled /\ opts.cooldown_seconds > 0
            /\ last_at # NULL /\ now - last_at < opts.cooldown_seconds
         THEN "Please wait before posting again" ELSE "">>

\* the first error of a sequence of check results, "" when all pass
RECURSIVE FirstError(_)
FirstError(checks) ==
    IF checks = <<>> THEN ""
    ELSE IF Head(checks) # "" THEN Head(checks)
    ELSE FirstError(Tail(checks))

\* create_message up to the insert: the error raised, "" when none
CreateMessageError(sid, m, p, content, parent_id) ==
    IF sid = NULL THEN "Session not found"
    ELSE IF QuestionsModuleError(m, sid) # "" THEN QuestionsModuleError(m, sid)
    ELSE FirstError(MessageChecks(m, p, content, parent_id))

\* SessionQuestionMessageRepository.create with the column defaults
NewMessage(m, p, parent_id) ==
    [session_module_id |-> m, participant_id |-> p, parent_id |-> parent_id,
     likes_count |-> 0, is_answered |-> FALSE, created_at |-> now,
     pinned_at |-> NULL, is_deleted |-> FALSE]

\* SessionQuestionsService.create_message; the parent_id foreign key is
\* checked by the insert, and a created row takes the next id of the sequence
\* (no row of the table is ever removed where this action runs)
CreateMessage(pc, m, p, content, parent_id) ==
    /\ UNCHANGED <<wsVars, sessions, session_modules, module_seq, timer_states,
                   question_likes, joinVars, tx>>
    /\ LET sid == SessionGetByPasscode(pc)
           id == Cardinality(DOMAIN question_messages) + 1
           check == CreateMessageError(sid, m, p, content, parent_id)
           err == IF check # "" THEN check
                  ELSE IF parent_id # NULL /\ parent_id \notin DOMAIN question_messages
                       THEN "IntegrityError"
                  ELSE ""
       IN IF err # ""
          THEN /\ UNCHANGED question_messages
               /\ last' = Result("create_message", FALSE, err, sid, NULL)
          ELSE /\ Cardinality(DOMAIN question_messages) < MaxMessages
               /\ question_messages' = question_messages @@ (id :> NewMessage(m, p, parent_id))
               /\ last' = Result("create_message", TRUE, "", sid, id)

\* add_like up to the like row: the error raised, "" when none
AddLikeError(sid, m, msg) ==
    IF sid = NULL THEN "Session not found"
    ELSE IF QuestionsModuleError(m, sid) # "" THEN QuestionsModuleError(m, sid)
    ELSE IF ~GetQuestionsSettings(session_modules[m].settings).likes_enabled
         THEN "Likes are disabled for this module"
    ELSE IF MessageGetById(msg) = NULL \/ question_messages[msg].session_module_id # m
         THEN "Message not found"
    ELSE ""

NewLike(msg, p) == [message_id |-> msg, participant_id |-> p]

\* repository add_like without the lookup of an existing row
RepoAddLikeUnchecked(msg, p) == TRUE

\* SessionQuestionMessageRepository.add_like: TRUE when a row is added
RepoAddLike(msg, p) == NewLike(msg, p) \notin question_likes

\* SessionQuestionsService.add_like
AddLike(pc, m, msg, p) ==
    /\ UNCHANGED <<wsVars, sessions, session_modules, module_seq, timer_states, joinVars, tx>>
    /\ LET sid == SessionGetByPasscode(pc)
           err == AddLikeError(sid, m, msg)
           added == RepoAddLike(msg, p)
       IN IF err # ""
          THEN /\ UNCHANGED qVars
               /\ last' = Result("add_like", FALSE, err, sid, msg)
          ELSE /\ question_likes' = IF added THEN question_likes \cup {NewLike(msg, p)}
                                    ELSE question_likes
               /\ question_messages' =
                      IF added
                      THEN [question_messages EXCEPT ![msg].likes_count = @ + 1]
                      ELSE question_messages
               /\ last' = [op |-> "add_like", ok |-> TRUE, err |-> "", session_id |-> sid,
                            id |-> msg, participant_id |-> p, added |-> added,
                            likes_count |-> question_messages'[msg].likes_count]

\* SessionQuestionsService.lecturer_patch_message; is_answered is <<>> when
\* the request leaves it out
LecturerPatchMessage(sid, u, m, msg, is_answered, delete) ==
    /\ UNCHANGED <<wsVars, sessions, session_modules, module_seq, timer_states,
                   question_likes, joinVars, tx>>
    /\ LET err == IF SessionGetById(sid) = NULL THEN "Session not found"
                  ELSE IF AccessDenied(u) THEN "Not authorized"
                  ELSE IF QuestionsModuleError(m, sid) # "" THEN QuestionsModuleError(m, sid)
                  ELSE IF MessageGetById(msg) = NULL
                          \/ question_messages[msg].session_module_id # m
                       THEN "Message not found"
                  ELSE ""
       IN /\ last' = Result("lecturer_patch_message", err = "", err, sid, msg)
          /\ question_messages' =
                 IF err # "" THEN question_messages
                 ELSE IF delete THEN [question_messages EXCEPT ![msg].is_deleted = TRUE]
                 ELSE IF is_answered # <<>>
                      THEN [question_messages EXCEPT ![msg].is_answered = is_answered[1]]
                 ELSE question_messages

\* SessionQuestionMessageRepository.update_pinned_at, committed by its caller
\* (the lecturer's pin / unpin): a pin stores the time of the call
PinMessage(msg, pin) ==
    /\ MessageGetById(msg) # NULL
    /\ question_messages' =
           [question_messages EXCEPT ![msg].pinned_at = IF pin THEN now ELSE NULL]
    /\ last' = Result("pin_message", TRUE, "", NULL, msg)
    /\ UNCHANGED <<wsVars, sessions, session_modules, module_seq, timer_states,
                   question_likes, joinVars, tx>>

\* the ORDER BY without its pinned_at key
OrderedByLikesOnly(a, b) ==
    IF a.likes_count # b.likes_count THEN a.likes_count > b.likes_count
    ELSE a.created_at < b.created_at

\* the ORDER BY of list_by_module: pinned_at DESC NULLS LAST, likes_count DESC,
\* created_at ASC; TRUE when row a sorts strictly before row b
OrderedBefore(a, b) ==
    IF a.pinned_at # b.pinned_at
    THEN a.pinned_at # NULL /\ (b.pinned_at = NULL \/ a.pinned_at > b.pinned_at)
    ELSE IF a.likes_count # b.likes_count THEN a.likes_count > b.likes_count
    ELSE a.created_at < b.created_at

\* the orders of a set of rows the database may return: rows with equal keys
\* come in any order
Orderings(ids) ==
    {s \in [1..Cardinality(ids) -> ids] :
        /\ \A i, j \in DOMAIN s : i # j => s[i] # s[j]
        /\ \A i, j \in DOMAIN s :
              i < j => ~OrderedBefore(question_messages[s[j]], question_messages[s[i]])}

\* .limit(limit).offset(offset)
Page(s, limit, offset) ==
    SubSeq(s, offset + 1, IF offset + limit < Len(s) THEN offset + limit ELSE Len(s))

\* SessionQuestionMessageRepository.list_by_module: the pages it may return
ListByModule(m, limit, offset) ==
    {Page(s, limit, offset) : s \in Orderings(TopLevelOf(m))}

\* SessionQuestionsService.list_messages: the ids of the listed messages in
\* the order returned (the replies attached to each are left out)
ListMessages(pc, m, limit, offset) ==
    /\ UNCHANGED dataVars
    /\ LET sid == SessionGetByPasscode(pc)
           err == IF sid = NULL THEN "Session not found" ELSE QuestionsModuleError(m, sid)
       IN IF err # ""
          THEN last' = Result("list_messages", FALSE, err, sid, m)
          ELSE \E page \in ListByModule(m, limit, offset) :
                   last' = [op |-> "list_messages", ok |-> TRUE, err |-> "",
                            session_id |-> sid, id |-> m, limit |-> limit,
                            offset |-> offset, messages |-> page]

QuestionModuleInputs == {1, 2, 3, 4}
QuestionPasscodes == {"AAAAAA", "CCCCCC"}
MessageInputs == 1..(MaxMessages + 1)
ParticipantInputs == {1, 2}

\* a request's passcode and module: the module under test, the three ways a
\* module is refused, and an unknown passcode
QuestionTargets ==
    {<<"AAAAAA", 1>>, <<"AAAAAA", 2>>, <<"AAAAAA", 3>>, <<"AAAAAA", 4>>, <<"CCCCCC", 1>>}

\* two started sessions with the modules of QuestionModules(i), and two
\* participants who joined session 1
InitQuestions ==
    /\ workspaces = InitialWorkspaces
    /\ session_seq = 2
    /\ sessions = [s \in SessionIds |->
                      [NewSession(IF s = 1 THEN "AAAAAA" ELSE "BBBBBB", DefaultSettings)
                          EXCEPT !.start_datetime = 1]]
    /\ \E i \in 1..3 : session_modules = QuestionModules(i)
    /\ module_seq = 3
    /\ timer_states = <<>>
    /\ question_messages = <<>>
    /\ question_likes = {}
    /\ participants = [p \in ParticipantInputs |-> NewParticipant(1, "anonymous", NULL, "")]
    /\ fingerprints = {}
    /\ guest_verifications = {}
    /\ pending_codes = {}
    /\ users = RegisteredUsers
    /\ tokens = {}
    /\ now = 1
    /\ tx = <<>>
    /\ last = Result("init", TRUE, "", NULL, NULL)

NextQuestions ==
    \/ \E t \in QuestionTargets, p \in ParticipantInputs, content \in ContentInputs,
          parent_id \in {NULL, 1, MaxMessages + 1} :
           CreateMessage(t[1], t[2], p, content, parent_id)
    \/ \E u \in UserIds, msg \in MessageInputs, delete \in BOOLEAN :
           LecturerPatchMessage(1, u, 1, msg, <<>>, delete)
    \/ Tick

SpecQuestions == InitQuestions /\ [][NextQuestions]_vars

\* ---------------------------------------------------------------- likes
\* two questions in the module under test and one in session 2's module
LikeMessages ==
    [x \in {1, 2, 3} |->
        [NewMessage(IF x = 3 THEN 2 ELSE 1, IF x = 2 THEN 2 ELSE 1, NULL)
            EXCEPT !.created_at = 1]]

InitLikes ==
    /\ now = 1
    /\ workspaces = InitialWorkspaces
    /\ session_seq = 2
    /\ sessions = [s \in SessionIds |->
                      [NewSession(IF s = 1 THEN "AAAAAA" ELSE "BBBBBB", DefaultSettings)
                          EXCEPT !.start_datetime = 1]]
    /\ \E i \in {1, 3} : session_modules = QuestionModules(i)
    /\ module_seq = 3
    /\ timer_states = <<>>
    /\ question_messages = LikeMessages
    /\ question_likes = {}
    /\ participants = [p \in ParticipantInputs |-> NewParticipant(1, "anonymous", NULL, "")]
    /\ fingerprints = {}
    /\ guest_verifications = {}
    /\ pending_codes = {}
    /\ users = RegisteredUsers
    /\ tokens = {}
    /\ tx = <<>>
    /\ last = Result("init", TRUE, "", NULL, NULL)

NextLikes ==
    \/ \E t \in QuestionTargets, msg \in {1, 2, 3, 4}, p \in ParticipantInputs :
           AddLike(t[1], t[2], msg, p)
    \/ \E u \in UserIds, m \in {1, 3}, msg \in {1, 3, 4},
          is_answered \in {<<>>, <<TRUE>>}, delete \in BOOLEAN :
           LecturerPatchMessage(1, u, m, msg, is_answered, delete)

SpecLikes == InitLikes /\ [][NextLikes]_vars

\* the like rows of a message
LikesOf(msg) == {l \in question_likes : l.message_id = msg}

\* C21 (first half): add_like is idempotent. A call that finds no like row of
\* its (message, participant) adds the row and raises likes_count by one; a
\* call that finds the row, such as the second of two calls in sequence,
\* succeeds without error and leaves rows and counter as they were.
AddLikeIdempotent ==
    [][last'.op = "add_like" =>
         \A t \in QuestionTargets, msg \in {1, 2, 3, 4}, p \in ParticipantInputs :
            (AddLike(t[1], t[2], msg, p) /\ AddLikeError(SessionGetByPasscode(t[1]), t[2], msg) = "")
               => /\ last'.ok
                  /\ NewLike(msg, p) \in question_likes'
                  /\ Cardinality({l \in question_likes' : l = NewLike(msg, p)}) = 1
                  /\ IF NewLike(msg, p) \in question_likes
                     THEN UNCHANGED qVars
                     ELSE /\ question_messages'[msg].likes_count
                               = question_messages[msg].likes_count + 1
                          /\ question_likes' = question_likes \cup {NewLike(msg, p)}]_vars

\* C21 (second half): after any sequence of sequential like operations the
\* likes_count of every message equals the number of its like rows.
LikesCountMatchesRows ==
    \A msg \in DOMAIN question_messages :
        question_messages[msg].likes_count = Cardinality(LikesOf(msg))

\* C21: both halves
AddLikeIdempotentAndCounted == AddLikeIdempotent /\ []LikesCountMatchesRows

\* a repeated add_like has just succeeded on a message another participant
\* liked too: one row per participant, counter 2
C21Witness ==
    /\ last.op = "add_like" /\ last.ok /\ ~last.added
    /\ last.likes_count = 2
    /\ Cardinality(LikesOf(last.id)) = 2

\* ------------------------------------------------- concurrent add_like
\* Two add_like requests, each in its own database session and transaction
\* (PostgreSQL, read committed). tx[t] is the request's position and what
\* its ORM session holds; the tables are the committed rows.
LikeRequest(msg, p) ==
    [pos |-> "begin", message_id |-> msg, participant_id |-> p, seen_count |-> 0,
     added |-> FALSE, counter_flushed |-> FALSE, row_flushed |-> FALSE]

LikeOpen(t) == tx[t].pos \notin {"committed", "failed"}

\* msg = get_by_id(message_id) after the session, module and settings
\* checks: the ORM session loads the row, likes_count included
LikeLoad(t) ==
    /\ tx[t].pos = "begin"
    /\ LET err == AddLikeError(SessionGetByPasscode("AAAAAA"), 1, tx[t].message_id)
       IN IF err # ""
          THEN /\ tx' = [tx EXCEPT ![t].pos = "failed"]
               /\ last' = Result("add_like", FALSE, err, 1, tx[t].message_id)
          ELSE /\ tx' = [tx EXCEPT ![t].pos = "loaded",
                                   ![t].seen_count =
                                       question_messages[tx[t].message_id].likes_count]
               /\ UNCHANGED last
    /\ UNCHANGED <<wsVars, sessions, modVars, joinVars>>

\* repository add_like: the lookup sees committed rows only; db.add(like)
\* and msg.likes_count += 1 change the ORM session, not yet the database
LikeCheckExisting(t) ==
    /\ tx[t].pos = "loaded"
    /\ tx' = [tx EXCEPT ![t].pos = "checked",
                        ![t].added = RepoAddLike(tx[t].message_id, tx[t].participant_id)]
    /\ UNCHANGED <<wsVars, sessions, modVars, joinVars, last>>

\* the flush of db.commit(), first statement: UPDATE session_question_messages
\* SET likes_count = <the value computed in Python> WHERE id = ...; it waits
\* for another transaction's uncommitted update of the row
LikeFlushCounter(t) ==
    /\ tx[t].pos = "checked" /\ tx[t].added
    /\ ~\E o \in Txns \ {t} :
           LikeOpen(o) /\ tx[o].counter_flushed /\ tx[o].message_id = tx[t].message_id
    /\ tx' = [tx EXCEPT ![t].pos = "counter_flushed", ![t].counter_flushed = TRUE]
    /\ UNCHANGED <<wsVars, sessions, modVars, joinVars, last>>

\* the flush, second statement: INSERT of the like row. The unique index on
\* (message_id, participant_id) makes it wait for an uncommitted row of the
\* same key and fail on a committed one; the failure rolls everything back
LikeFlushRow(t) ==
    /\ tx[t].pos = "counter_flushed"
    /\ ~\E o \in Txns \ {t} :
           /\ LikeOpen(o) /\ tx[o].row_flushed
           /\ tx[o].message_id = tx[t].message_id
           /\ tx[o].participant_id = tx[t].participant_id
    /\ IF NewLike(tx[t].message_id, tx[t].participant_id) \in question_likes
       THEN /\ tx' = [tx EXCEPT ![t].pos = "failed", ![t].counter_flushed = FALSE]
            /\ last' = Result("add_like", FALSE, "IntegrityError", 1, tx[t].message_id)
       ELSE /\ tx' = [tx EXCEPT ![t].pos = "row_flushed", ![t].row_flushed = TRUE]
            /\ UNCHANGED last
    /\ UNCHANGED <<wsVars, sessions, modVars, joinVars>>

\* COMMIT: the flushed statements become the committed rows
LikeCommit(t) ==
    /\ \/ tx[t].pos = "row_flushed"
       \/ tx[t].pos = "checked" /\ ~tx[t].added
    /\ LET msg == tx[t].message_id
           p == tx[t].participant_id
       IN /\ question_messages' =
                 IF tx[t].added
                 THEN [question_messages EXCEPT ![msg].likes_count = tx[t].seen_count + 1]
                 ELSE question_messages
          /\ question_likes' = IF tx[t].added THEN question_likes \cup {NewLike(msg, p)}
                               ELSE question_likes
          /\ last' = [op |-> "add_like", ok |-> TRUE, err |-> "", session_id |-> 1,
                      id |-> msg, participant_id |-> p, added |-> tx[t].added,
                      likes_count |-> question_messages'[msg].likes_count]
    /\ tx' = [tx EXCEPT ![t].pos = "committed", ![t].counter_flushed = FALSE,
                        ![t].row_flushed = FALSE]
    /\ UNCHANGED <<wsVars, sessions, session_modules, module_seq, timer_states, joinVars>>

\* the questions of LikeMessages, the first possibly liked by participant 1
\* already, and two requests
InitLikeRace ==
    /\ now = 1
    /\ workspaces = InitialWorkspaces
    /\ session_seq = 2
    /\ sessions = [s \in SessionIds |->
                      [NewSession(IF s = 1 THEN "AAAAAA" ELSE "BBBBBB", DefaultSettings)
                          EXCEPT !.start_datetime = 1]]
    /\ session_modules = QuestionModules(1)
    /\ module_seq = 3
    /\ timer_states = <<>>
    /\ \E liked \in BOOLEAN :
         /\ question_likes = IF liked THEN {NewLike(1, 1)} ELSE {}
         /\ question_messages =
                [LikeMessages EXCEPT ![1].likes_count = IF liked THEN 1 ELSE 0]
    /\ participants = [p \in ParticipantInputs |-> NewParticipant(1, "anonymous", NULL, "")]
    /\ fingerprints = {}
    /\ guest_verifications = {}
    /\ pending_codes = {}
    /\ users = RegisteredUsers
    /\ tokens = {}
    /\ tx \in [Txns -> {LikeRequest(msg, p) : msg \in {1, 2, 4}, p \in ParticipantInputs}]
    /\ last = Result("init", TRUE, "", NULL, NULL)

NextLikeRace ==
    \/ \E t \in Txns : LikeLoad(t)
    \/ \E t \in Txns : LikeCheckExisting(t)
    \/ \E t \in Txns : LikeFlushCounter(t)
    \/ \E t \in Txns : LikeFlushRow(t)
    \/ \E t \in Txns : LikeCommit(t)

SpecLikeRace == InitLikeRace /\ [][NextLikeRace]_vars

\* C22: under concurrent add_like requests on the same message the committed
\* likes_count of every message equals the number of its committed like rows,
\* in every interleaving (no double increment, no lost increment).
CommittedLikesMatchRows ==
    \A msg \in DOMAIN question_messages :
        question_messages[msg].likes_count
            = Cardinality({l \in question_likes : l.message_id = msg})

\* ======================================================================
\* Passcodes
\* ======================================================================
\* In this section a passcode is the sequence of its characters, and <<>>
\* stands for no passcode.

\* generate_passcode(length: int = 6)
PasscodeLength == 6

\* string.ascii_uppercase + string.digits
UppercaseAndDigits ==
    <<"A", "B", "C", "D", "E", "F", "G", "H", "I", "J", "K", "L", "M", "N", "O", "P", "Q",
      "R", "S", "T", "U", "V", "W", "X", "Y", "Z",
      "0", "1", "2", "3", "4", "5", "6", "7", "8", "9">>

\* str.replace(c, ''): every occurrence of c removed
RECURSIVE Without(_, _)
Without(s, c) ==
    IF s = <<>> THEN <<>>
    ELSE IF Head(s) = c THEN Without(Tail(s), c)
    ELSE <<Head(s)>> \o Without(Tail(s), c)

\* the characters generate_passcode draws from
PasscodeCharacters == Without(Without(Without(Without(UppercaseAndDigits, "0"), "O"), "1"), "I")

\* random.choices(characters, k = length): of the codes it can return, those
\* that repeat one character out of a sample of five
DrawSample == {"A", "B", "O", "0", "2"}
GeneratePasscode(length) ==
    {[i \in 1..length |-> c] :
        c \in {PasscodeCharacters[i] : i \in DOMAIN PasscodeCharacters} \cap DrawSample}

\* the query restricted to sessions that are not soft-deleted
PasscodeExistsLive(code) ==
    \E o \in DOMAIN sessions : sessions[o].passcode = code /\ ~sessions[o].is_deleted

\* the query of generate_unique_passcode: any session row, deleted or not
PasscodeExists(code) == \E o \in DOMAIN sessions : sessions[o].passcode = code

\* generate_unique_passcode: the codes it may return, and <<>> when every
\* attempt may have drawn a code in use (it raises ValueError)
GenerateUniquePasscode ==
    {code \in GeneratePasscode(PasscodeLength) : ~PasscodeExists(code)}
        \cup (IF \E code \in GeneratePasscode(PasscodeLength) : PasscodeExists(code)
              THEN {<<>>} ELSE {})

\* a regenerate_passcode request in flight
NoRegen == [pos |-> "idle", session_id |-> NULL, user_id |-> NULL, code |-> <<>>,
            flushed |-> FALSE]

RegenOpen(t) == tx[t].pos \in {"generated", "flushed"}
RegenIdle == \A t \in Txns : ~RegenOpen(t)

\* regenerate_passcode up to the assignment session.passcode = new_passcode
\* (reads see committed rows only)
RegenGenerate(t, sid, u) ==
    /\ ~RegenOpen(t)
    /\ IF SessionGetById(sid) = NULL
       THEN /\ tx' = [tx EXCEPT ![t] = [NoRegen EXCEPT !.pos = "done"]]
            /\ last' = LifecycleResult("regenerate_passcode", "Session not found", sid, u)
       ELSE IF AccessDenied(u)
       THEN /\ tx' = [tx EXCEPT ![t] = [NoRegen EXCEPT !.pos = "done"]]
            /\ last' = LifecycleResult("regenerate_passcode",
                                       "Session not found or access denied", sid, u)
       ELSE \E code \in GenerateUniquePasscode :
               IF code = <<>>
               THEN /\ tx' = [tx EXCEPT ![t] = [NoRegen EXCEPT !.pos = "done"]]
                    /\ last' = LifecycleResult("regenerate_passcode",
                                               "Unable to generate unique passcode", sid, u)
               ELSE /\ tx' = [tx EXCEPT ![t] = [pos |-> "generated", session_id |-> sid,
                                                user_id |-> u, code |-> code,
                                                flushed |-> FALSE]]
                    /\ UNCHANGED last
    /\ UNCHANGED <<wsVars, sessions, modVars, joinVars>>

\* the unique index without its uniqueness
PasscodeIndexNotUnique(t) == FALSE

\* ix_sessions_passcode (unique): another row holds the code
PasscodeIndexViolated(t) ==
    \E o \in DOMAIN sessions : o # tx[t].session_id /\ sessions[o].passcode = tx[t].code

\* the flush of db.commit(): UPDATE sessions SET passcode = ... WHERE id = ...;
\* it waits for an uncommitted update of the same row and for an uncommitted
\* row with the same code, and fails on a committed row with the same code
RegenFlush(t) ==
    /\ tx[t].pos = "generated"
    /\ ~\E o \in Txns \ {t} :
           /\ tx[o].pos = "flushed"
           /\ tx[o].session_id = tx[t].session_id \/ tx[o].code = tx[t].code
    /\ IF PasscodeIndexViolated(t)
       THEN /\ tx' = [tx EXCEPT ![t].pos = "done"]
            /\ last' = LifecycleResult("regenerate_passcode", "IntegrityError",
                                       tx[t].session_id, tx[t].user_id)
       ELSE /\ tx' = [tx EXCEPT ![t].pos = "flushed", ![t].flushed = TRUE]
            /\ UNCHANGED last
    /\ UNCHANGED <<wsVars, sessions, modVars, joinVars>>

\* COMMIT of regenerate_passcode
RegenCommit(t) ==
    /\ tx[t].pos = "flushed"
    /\ sessions' = [sessions EXCEPT ![tx[t].session_id].passcode = tx[t].code]
    /\ tx' = [tx EXCEPT ![t].pos = "done", ![t].flushed = FALSE]
    /\ last' = LifecycleResult("regenerate_passcode", "", tx[t].session_id, tx[t].user_id)
    /\ UNCHANGED <<wsVars, modVars, joinVars>>

\* one session, possibly soft-deleted, holding a generated code
InitPasscode ==
    /\ workspaces = InitialWorkspaces
    /\ session_seq = 1
    /\ \E code \in GeneratePasscode(PasscodeLength), del \in BOOLEAN :
         sessions = (1 :> [NewSession(code, DefaultSettings) EXCEPT !.is_deleted = del])
    /\ session_modules = <<>>
    /\ module_seq = 0
    /\ timer_states = <<>>
    /\ question_messages = <<>>
    /\ question_likes = {}
    /\ participants = <<>>
    /\ fingerprints = {}
    /\ guest_verifications = {}
    /\ pending_codes = {}
    /\ users = RegisteredUsers
    /\ tokens = {}
    /\ now = 1
    /\ tx = [t \in Txns |-> NoRegen]
    /\ last = Result("init", TRUE, "", NULL, NULL)

\* sessions are created one at a time, between the concurrent regenerations
NextPasscode ==
    \/ \E code \in GenerateUniquePasscode \ {<<>>}, u \in UserIds :
           RegenIdle /\ CreateSession(DefaultSettings, code, u)
    \/ \E t \in Txns, sid \in SessionIds, u \in UserIds : RegenGenerate(t, sid, u)
    \/ \E t \in Txns : RegenFlush(t)
    \/ \E t \in Txns : RegenCommit(t)

SpecPasscode == InitPasscode /\ [][NextPasscode]_vars

\* A-Z and 0-9 without 0, O, 1 and I
ReadableCharacters ==
    {"A", "B", "C", "D", "E", "F", "G", "H", "J", "K", "L", "M", "N", "P", "Q", "R", "S",
     "T", "U", "V", "W", "X", "Y", "Z", "2", "3", "4", "5", "6", "7", "8", "9"}

Dict(items) == [kind |-> "dict", v |-> items]
Scalar(x) == [kind |-> "scalar", v |-> x]
None == [kind |-> "none", v |-> <<>>]

\* isinstance(x, dict)
IsDict(x) == x.kind = "dict"

\* the truth value of an object: None and {} are false
Truthy(x) == IF IsDict(x) THEN DOMAIN x.v # {} ELSE x.kind # "none"

\* the dicts with keys among ks and values among vs
DictsOver(ks, vs) == {Dict(f) : f \in UNION {[sub -> vs] : sub \in SUBSET ks}}

\* settings objects up to three levels deep
MergeScalars == {Scalar(1), Scalar(2)}
MergeLeaves == DictsOver({"x"}, MergeScalars)
MergeNested == DictsOver({"n"}, MergeScalars \cup MergeLeaves)
MergeInputs == DictsOver({"a", "b"}, MergeScalars \cup MergeNested)

RECURSIVE MergeSettings(_, _)
RECURSIVE MergeLoop(_, _, _)

\* the loop body with the recursion left out: the custom value always wins
MergeEntryShallow(merged, key, value) == value

\* the body of the loop of merge_settings: the value stored under key
MergeEntry(merged, key, value) ==
    IF key \in DOMAIN merged /\ IsDict(merged[key]) /\ IsDict(value)
    THEN MergeSettings(merged[key], value)
    ELSE value

\* for key, value in custom.items(): merged[key] = ...; keys is what is left
\* to iterate over
MergeLoop(merged, custom, keys) ==
    IF keys = {} THEN merged
    ELSE LET key == CHOOSE k \in keys : TRUE
             stored == MergeEntry(merged, key, custom[key])
         IN MergeLoop([k \in DOMAIN merged \cup {key} |->
                          IF k = key THEN stored ELSE merged[k]],
                      custom, keys \ {key})

\* template.copy() if template else {}
CopyOrEmpty(template) == IF Truthy(template) THEN template.v ELSE <<>>

\* merge_settings: the dict returned
MergeSettings(template, custom) ==
    IF ~Truthy(custom) THEN Dict(CopyOrEmpty(template))
    ELSE Dict(MergeLoop(CopyOrEmpty(template), custom.v, DOMAIN custom.v))

\* merged = template.copy(): the object the loop assigns into is the copy,
\* a dict of its own, and not the template
LoopTarget == "copy"

\* a call of merge_settings: what it returns and what its two argument
\* objects hold afterwards; custom is only read
MergeSettingsCall ==
    /\ tx.called = FALSE
    /\ tx' = [tx EXCEPT !.called = TRUE]
    /\ last' = [op |-> "merge_settings", ok |-> TRUE, err |-> "",
                merged |-> MergeSettings(tx.template, tx.custom),
                template |-> IF LoopTarget = "template" /\ Truthy(tx.template)
                             THEN MergeSettings(tx.template, tx.custom)
                             ELSE tx.template,
                custom |-> tx.custom]
    /\ UNCHANGED <<wsVars, sessions, modVars, joinVars>>

InitMerge ==
    /\ workspaces = InitialWorkspaces
    /\ session_seq = 0
    /\ sessions = <<>>
    /\ session_modules = <<>>
    /\ module_seq = 0
    /\ timer_states = <<>>
    /\ question_messages = <<>>
    /\ question_likes = {}
    /\ participants = <<>>
    /\ fingerprints = {}
    /\ guest_verifications = {}
    /\ pending_codes = {}
    /\ users = RegisteredUsers
    /\ tokens = {}
    /\ now = 1
    /\ tx \in [template : MergeInputs, custom : MergeInputs \cup {None}, called : {FALSE}]
    /\ last = Result("init", TRUE, "", NULL, NULL)

NextMerge == MergeSettingsCall

SpecMerge == InitMerge /\ [][NextMerge]_vars

\* r agrees with o on every key of o and with t on every key absent from o,
\* recursively where both hold an object
RECURSIVE Agrees(_, _, _)
Agrees(r, t, o) ==
    /\ IsDict(r)
    /\ DOMAIN r.v = DOMAIN t.v \cup DOMAIN o.v
    /\ \A k \in DOMAIN r.v :
          IF k \notin DOMAIN o.v THEN r.v[k] = t.v[k]
          ELSE IF k \in DOMAIN t.v /\ IsDict(t.v[k]) /\ IsDict(o.v[k])
               THEN Agrees(r.v[k], t.v[k], o.v[k])
          ELSE r.v[k] = o.v[k]

\* C24: merge(T, {}) equals T, and for all settings objects T and O,
\* merge(T, O) agrees with O on every key present in O and with T on every key
\* absent from O, recursively through nested objects, and leaves T and O
\* themselves unchanged.
MergeOverridesRecursively ==
    last.op = "merge_settings" =>
        /\ tx.custom = Dict(<<>>) => last.merged = tx.template
        /\ IsDict(tx.custom) => Agrees(last.merged, tx.template, tx.custom)
        /\ last.template = tx.template
        /\ last.custom = tx.custom

\* a merge that kept a nested key of the template, replaced another nested
\* value and added a key of its own
C24Witness ==
    /\ last.op = "merge_settings"
    /\ tx.template = Dict("a" :> Dict("n" :> Dict("x" :> Scalar(1))))
    /\ tx.custom = Dict(("a" :> Dict("n" :> Dict(<<>>))) @@ ("b" :> Scalar(2)))
    /\ last.merged = Dict(("a" :> Dict("n" :> Dict("x" :> Scalar(1)))) @@ ("b" :> Scalar(2)))

\* ======================================================================
\* Workspace template and session settings
\* ======================================================================

\* calculate_settings_diff over flat settings: the keys of new whose value
\* is not the template's
SettingsDiff(template, new) ==
    LET changed == {k \in DOMAIN new : k \notin DOMAIN template \/ template[k] # new[k]}
    IN [k \in changed |-> new[k]]

\* sync_sessions_on_template_update, one session: a session without
\* custom_settings keeps none and so follows the new template; one with
\* custom_settings keeps what differs from the new template
SyncedCustomSettings(row, old_template, new_template) ==
    IF row.custom_settings = NULL THEN NULL
    ELSE LET custom == row.custom_settings
             current_merged == [k \in DOMAIN old_template \cup DOMAIN custom |->
                                   IF k \in DOMAIN custom THEN custom[k] ELSE old_template[k]]
             new_diff == SettingsDiff(new_template, current_merged)
         IN IF DOMAIN new_diff # {} THEN new_diff ELSE NULL

\* WorkspaceService.update_workspace; template_settings is <<>> when the
\* request leaves it out
UpdateWorkspace(u, template_settings) ==
    /\ UNCHANGED <<session_seq, modVars, joinVars, tx>>
    /\ LET err == IF WorkspaceGetById(SessionWorkspace) = NULL THEN "Workspace not found"
                  ELSE IF workspaces[SessionWorkspace].user_id # u
                       THEN "Workspace not found or access denied"
                  ELSE ""
           old_template == workspaces[SessionWorkspace].template_settings
       IN /\ last' = LifecycleResult("update_workspace", err, NULL, u)
          /\ IF err # "" \/ template_settings = <<>>
             THEN UNCHANGED <<workspaces, sessions>>
             ELSE /\ workspaces' = [workspaces EXCEPT
                                       ![SessionWorkspace].template_settings =
                                           template_settings[1]]
                  /\ sessions' =
                         IF old_template = template_settings[1] THEN sessions
                         ELSE [x \in DOMAIN sessions |->
                                  [sessions[x] EXCEPT !.custom_settings =
                                      SyncedCustomSettings(sessions[x], old_template,
                                                           template_settings[1])]]

\* templates an owner may store
TemplateInputs ==
    {Settings("anonymous", NULL, NULL), Settings("email_code", NULL, NULL),
     [Settings("email_code", 2, NULL) EXCEPT !.email_code_domains_whitelist = {"y.org"}]}

InitTemplate ==
    /\ \E t \in TemplateInputs :
         workspaces = (SessionWorkspace :> [NewWorkspace EXCEPT !.template_settings = t])
    /\ session_seq = 0
    /\ sessions = <<>>
    /\ session_modules = <<>>
    /\ module_seq = 0
    /\ timer_states = <<>>
    /\ question_messages = <<>>
    /\ question_likes = {}
    /\ participants = <<>>
    /\ fingerprints = {}
    /\ guest_verifications = {}
    /\ pending_codes = {}
    /\ users = RegisteredUsers
    /\ tokens = {}
    /\ now = 1
    /\ tx = <<>>
    /\ last = Result("init", TRUE, "", NULL, NULL)

\* a session is created with the template of the moment as its settings
NextTemplate ==
    \/ \E pc \in Passcodes, u \in UserIds :
           CreateSession(workspaces[SessionWorkspace].template_settings, pc, u)
    \/ \E sid \in SessionIds, u \in UserIds : StartSession(sid, u)
    \/ \E u \in UserIds, t \in {<<>>} \cup {<<x>> : x \in TemplateInputs} :
           UpdateWorkspace(u, t)
    \/ \E pc \in Passcodes, e \in Emails, c \in Codes : RequestCode(pc, e, c)

SpecTemplate == InitTemplate /\ [][NextTemplate]_vars

\* C25: a session's effective settings are an independent snapshot taken at
\* creation: no later change to the workspace template changes the settings
\* the session is governed by (entry mode, max_participants, domain
\* whitelist), neither those its joins read nor those its email-code
\* requests read.
TemplateChangeKeepsSessionSettings ==
    [][last'.op = "update_workspace" =>
         \A sid \in DOMAIN sessions :
            /\ GetSettings(sid)' = GetSettings(sid)
            /\ GetMergedSettings(sid)' = GetMergedSettings(sid)]_vars

\* ======================================================================
\* SSO join
\* ======================================================================

\* C26: join_sso never creates a participant or changes any state; it yields
\* the not-implemented outcome exactly when the session exists, is started
\* (and not stopped since), is in sso mode and has an sso_organization_id
\* configured, and an ordinary rejection in every other case.
JoinSsoOutcome ==
    [][last'.op = "join_sso" =>
         /\ UNCHANGED dataVars
         /\ ~last'.ok
         /\ last'.err # ""
         /\ (last'.err = "NotImplementedError")
               <=> /\ last'.session_id # NULL
                   /\ Running(last'.session_id)
                   /\ GetSettings(last'.session_id).participant_entry_mode = "sso"
                   /\ GetSettings(last'.session_id).sso_organization_id # NULL]_vars

\* ======================================================================
\* Listing questions
\* ======================================================================

\* the participants who liked a message with likes_count n
LikersOf(n) == 1..n

\* three questions of module 1 with 2 or 5 likes each, created in the order
\* of their ids at time 1 or 2 and possibly pinned since; a reply to the
\* first; a question of session 2's module
ListMessageRows ==
    {rows \in [1..3 -> [likes_count : {2, 5}, created_at : {1, 2}, pinned_at : {NULL, 1, 2}]] :
        /\ rows[1].created_at <= rows[2].created_at
        /\ rows[2].created_at <= rows[3].created_at
        /\ \A x \in 1..3 : rows[x].pinned_at # NULL => rows[x].pinned_at >= rows[x].created_at}

InitList ==
    /\ now = 2
    /\ workspaces = InitialWorkspaces
    /\ session_seq = 2
    /\ sessions = [s \in SessionIds |->
                      [NewSession(IF s = 1 THEN "AAAAAA" ELSE "BBBBBB", DefaultSettings)
                          EXCEPT !.start_datetime = 1]]
    /\ session_modules = QuestionModules(1)
    /\ module_seq = 3
    /\ timer_states = <<>>
    /\ \E rows \in ListMessageRows :
         /\ question_messages =
                [x \in 1..5 |->
                    IF x <= 3
                    THEN [NewMessage(1, 1, NULL) EXCEPT
                              !.likes_count = rows[x].likes_count,
                              !.created_at = rows[x].created_at,
                              !.pinned_at = rows[x].pinned_at]
                    ELSE IF x = 4 THEN NewMessage(1, 2, 1)
                    ELSE NewMessage(2, 1, NULL)]
         /\ question_likes =
                UNION {{NewLike(x, p) : p \in LikersOf(rows[x].likes_count)} : x \in 1..3}
    /\ participants = [p \in 1..5 |-> NewParticipant(1, "anonymous", NULL, "")]
    /\ fingerprints = {}
    /\ guest_verifications = {}
    /\ pending_codes = {}
    /\ users = RegisteredUsers
    /\ tokens = {}
    /\ tx = <<>>
    /\ last = Result("init", TRUE, "", NULL, NULL)

NextList ==
    \/ \E t \in QuestionTargets, limit \in {1, 100}, offset \in {0, 1} :
           ListMessages(t[1], t[2], limit, offset)
    \/ \E msg \in 1..3, pin \in BOOLEAN : PinMessage(msg, pin)
    \/ \E msg \in 1..3 : LecturerPatchMessage(1, WorkspaceOwner, 1, msg, <<>>, TRUE)

SpecList == InitList /\ [][NextList]_vars

\* a full listing of a module has just been returned
FullListing == last'.op = "list_messages" /\ last'.ok /\ last'.limit = 100 /\ last'.offset = 0

\* the listing holds each non-deleted top-level message of the module once
ListsTopLevelOnce ==
    /\ {last'.messages[i] : i \in DOMAIN last'.messages} = TopLevelOf(last'.id)
    /\ Len(last'.messages) = Cardinality(TopLevelOf(last'.id))

\* row a comes before row b when pinned and b is not, then with more likes,
\* then when created earlier
PinnedLikesCreated(a, b) ==
    IF (a.pinned_at # NULL) # (b.pinned_at # NULL) THEN a.pinned_at # NULL
    ELSE IF a.likes_count # b.likes_count THEN a.likes_count > b.likes_count
    ELSE a.created_at < b.created_at

RecentPinLikesCreated(a, b) ==
    IF (a.pinned_at # NULL) # (b.pinned_at # NULL) THEN a.pinned_at # NULL
    ELSE IF a.pinned_at # b.pinned_at THEN a.pinned_at > b.pinned_at
    ELSE IF a.likes_count # b.likes_count THEN a.likes_count > b.likes_count
    ELSE a.created_at < b.created_at

\* the scenario: none pinned, A (1) with 2 likes, C (2) and B (3) with 5
\* likes each, C created before B
OrderingScenario ==
    /\ \A x \in 1..3 : ~question_messages[x].is_deleted /\ question_messages[x].pinned_at = NULL
    /\ question_messages[1].likes_count = 2
    /\ question_messages[2].likes_count = 5 /\ question_messages[3].likes_count = 5
    /\ question_messages[2].created_at < question_messages[3].created_at

StartSucceeded == last'.op = "start_session" /\ last'.ok

\* C28: start sets start_datetime only on the first successful start: once
\* set, start_datetime is kept by every later start and stop, while each
\* successful start clears end_datetime, resets stopped_participant_count to
\* 0 and sets is_stopped = false.
StartKeepsFirstStartDatetime ==
    [][/\ \A sid \in DOMAIN sessions :
             sessions[sid].start_datetime # NULL =>
                 /\ sid \in DOMAIN sessions'
                 /\ sessions'[sid].start_datetime = sessions[sid].start_datetime
       /\ StartSucceeded =>
             LET before == sessions[last'.session_id]
                 after == sessions'[last'.session_id]
             IN /\ before.start_datetime = NULL => after.start_datetime = now
                /\ after.end_datetime = NULL
                /\ after.stopped_participant_count = 0
                /\ ~after.is_stopped]_vars

\* a session started at an earlier time runs again after a stop
C28Witness ==
    /\ last.op = "start_session" /\ last.ok
    /\ last.session_id \in DOMAIN sessions
    /\ sessions[last.session_id].start_datetime # NULL
    /\ sessions[last.session_id].start_datetime < now
    /\ ~sessions[last.session_id].is_stopped
    /\ sessions[last.session_id].end_datetime = NULL
    /\ sessions[last.session_id].stopped_participant_count = 0

\* ======================================================================
\* Creating a message: the order of the checks and the cap on questions
\* ======================================================================

\* the module check of create_message fails
ModuleCheckFails(pc, m) ==
    \/ m \notin DOMAIN session_modules
    \/ session_modules[m].is_deleted
    \/ session_modules[m].session_id # SessionGetByPasscode(pc)
    \/ session_modules[m].module_type # "questions"

ModuleErrors ==
    {"Module not found", "Module not in this session", "Module is not a Questions module"}

\* the non-deleted top-level messages a module holds
HeldTopLevel(m) ==
    {x \in DOMAIN question_messages :
        /\ question_messages[x].session_module_id = m
        /\ question_messages[x].parent_id = NULL
        /\ ~question_messages[x].is_deleted}

\* the participant posted a message that is still there less than the
\* cooldown ago
CoolingDown(m, p) ==
    LET opts == GetQuestionsSettings(session_modules[m].settings)
    IN /\ opts.cooldown_enabled
       /\ \E x \in DOMAIN question_messages :
             /\ question_messages[x].session_module_id = m
             /\ question_messages[x].participant_id = p
             /\ ~question_messages[x].is_deleted
             /\ now - question_messages[x].created_at < opts.cooldown_seconds

\* the checks of the message in the stated order, each with its error
StatedChecks(m, p, content, parent_id) ==
    LET opts == GetQuestionsSettings(session_modules[m].settings)
    IN <<<<\A i \in DOMAIN content : content[i] = " ", "Content is required">>,
         <<Len(Strip(content)) > QuestionsLengthLimits[opts.length_limit_mode],
           "Message exceeds maximum length">>,
         <<parent_id # NULL /\ ~opts.allow_participant_answers,
           "Participant answers are disabled for this module">>,
         <<parent_id = NULL /\ opts.max_questions_total # NULL
              /\ Cardinality(HeldTopLevel(m)) >= opts.max_questions_total,
           "Maximum number of questions reached">>,
         <<CoolingDown(m, p), "Please wait before posting again">>>>

\* the stated checks that fail, by position
FailingChecks(m, p, content, parent_id) ==
    LET checks == StatedChecks(m, p, content, parent_id)
    IN {i \in 1..5 : checks[i][1]}

\* the error create_message raises for a call fits the stated order of the
\* checks
FirstFailingCheckReported(pc, m, p, content, parent_id) ==
    LET err == CreateMessageError(SessionGetByPasscode(pc), m, p, content, parent_id)
    IN IF ModuleCheckFails(pc, m)
       THEN err \in ModuleErrors
       ELSE LET failing == FailingChecks(m, p, content, parent_id)
            IN IF failing = {}
               THEN err = ""
               ELSE \E i \in failing :
                       /\ \A j \in failing : i <= j
                       /\ err = StatedChecks(m, p, content, parent_id)[i][2]

\* C29: create_message applies its checks in the fixed order: module exists,
\* belongs to the session and is of type questions; trimmed content
\* non-empty; length within the resolved limit; replies allowed if it is a
\* reply; max_questions_total not reached if it is top-level; cooldown
\* elapsed. In every state, for every call, the error raised is that of the
\* first failing check in this order; the call reports the error raised, and
\* any failure creates no message.
CreateMessageChecksInOrder ==
    /\ [](\A t \in QuestionTargets, p \in ParticipantInputs, content \in ContentInputs,
             parent_id \in {NULL, 1, MaxMessages + 1} :
                SessionGetByPasscode(t[1]) # NULL =>
                    FirstFailingCheckReported(t[1], t[2], p, content, parent_id))
    /\ [][(last'.op = "create_message" /\ now' = now) =>
             /\ last'.ok = (last'.err = "")
             /\ ~last'.ok => question_messages' = question_messages
             /\ last'.ok => /\ last'.id \notin DOMAIN question_messages
                            /\ last'.id \in DOMAIN question_messages']_vars

\* a call failing several checks at once reported the first of them: a blank
\* text from a participant still cooling down
C29Witness ==
    /\ last.op = "create_message" /\ ~last.ok /\ last.err = "Content is required"
    /\ 1 \in DOMAIN session_modules
    /\ \E p \in ParticipantInputs : CoolingDown(1, p)

\* C30: with max_questions_total = K a top-level message is rejected once the
\* module holds K top-level messages, a reply is never counted toward K and
\* never rejected because of K, so a module never holds more than K
\* top-level messages.
TopLevelCapped ==
    /\ [](\A t \in QuestionTargets, p \in ParticipantInputs, content \in ContentInputs,
             parent_id \in {NULL, 1, MaxMessages + 1} :
                (SessionGetByPasscode(t[1]) # NULL /\ ~ModuleCheckFails(t[1], t[2])) =>
                    LET K == GetQuestionsSettings(session_modules[t[2]].settings).max_questions_total
                        held == Cardinality(HeldTopLevel(t[2]))
                        err == CreateMessageError(SessionGetByPasscode(t[1]), t[2], p,
                                                  content, parent_id)
                    IN /\ (parent_id = NULL /\ K # NULL /\ held >= K) => err # ""
                       /\ err = "Maximum number of questions reached" =>
                              (parent_id = NULL /\ K # NULL /\ held >= K))
    /\ [](\A m \in DOMAIN session_modules :
             (session_modules[m].module_type = "questions"
                  /\ GetQuestionsSettings(session_modules[m].settings).max_questions_total # NULL) =>
                 Cardinality(HeldTopLevel(m)) <=
                     GetQuestionsSettings(session_modules[m].settings).max_questions_total)

\* a module with a cap of one holds its question and a reply to it, and
\* another question has just been rejected
C30Witness ==
    /\ last.op = "create_message" /\ last.err = "Maximum number of questions reached"
    /\ 1 \in DOMAIN session_modules
    /\ GetQuestionsSettings(session_modules[1].settings).max_questions_total = 1
    /\ Cardinality(HeldTopLevel(1)) = 1
    /\ \E x \in DOMAIN question_messages :
          /\ question_messages[x].session_module_id = 1
          /\ question_messages[x].parent_id # NULL
          /\ ~question_messages[x].is_deleted

\* ======================================================================
\* The tree of messages
\* ======================================================================

\* the Questions modules of both sessions, each under its own passcode, and
\* the targets of session 1 that fail the module check
TreeTargets ==
    {<<"AAAAAA", 1>>, <<"AAAAAA", 2>>, <<"AAAAAA", 3>>, <<"AAAAAA", 4>>, <<"BBBBBB", 2>>}

\* any message id as parent, existing or not
ParentInputs == {NULL} \cup 1..(MaxMessages + 1)

\* one participant in each session
InitTree ==
    /\ workspaces = InitialWorkspaces
    /\ session_seq = 2
    /\ sessions = [s \in SessionIds |->
                      [NewSession(IF s = 1 THEN "AAAAAA" ELSE "BBBBBB", DefaultSettings)
                          EXCEPT !.start_datetime = 1]]
    /\ \E i \in 1..3 : session_modules = QuestionModules(i)
    /\ module_seq = 3
    /\ timer_states = <<>>
    /\ question_messages = <<>>
    /\ question_likes = {}
    /\ participants = [p \in ParticipantInputs |-> NewParticipant(p, "anonymous", NULL, "")]
    /\ fingerprints = {}
    /\ guest_verifications = {}
    /\ pending_codes = {}
    /\ users = RegisteredUsers
    /\ tokens = {}
    /\ now = 1
    /\ tx = <<>>
    /\ last = Result("init", TRUE, "", NULL, NULL)

\* the endpoint resolves the caller to a participant of the passcode's session
NextTree ==
    \/ \E t \in TreeTargets, p \in ParticipantInputs, parent_id \in ParentInputs :
           /\ participants[p].session_id = SessionGetByPasscode(t[1])
           /\ CreateMessage(t[1], t[2], p, <<" ", "h", "i", " ">>, parent_id)
    \/ \E sid \in SessionIds, msg \in MessageInputs :
           LecturerPatchMessage(sid, WorkspaceOwner, sid, msg, <<>>, TRUE)

SpecTree == InitTree /\ [][NextTree]_vars

\* C31: messages form a two-level tree in every reachable state: every
\* message with a non-null parent_id refers to an existing top-level message
\* of the same module, so no reply has a reply as its parent and no reply
\* crosses modules.
TwoLevelTree ==
    \A x \in DOMAIN question_messages :
        question_messages[x].parent_id # NULL =>
            /\ question_messages[x].parent_id \in DOMAIN question_messages
            /\ question_messages[question_messages[x].parent_id].parent_id = NULL
            /\ question_messages[question_messages[x].parent_id].session_module_id =
                   question_messages[x].session_module_id

\* ======================================================================
\* Pending email codes
\* ======================================================================

\* two codes the service may draw, and one it never sent
DrawnCodes == {"111111", "222222"}
TypedCodes == DrawnCodes \cup {"000000"}

\* two running sessions in email-code entry mode
InitCode ==
    /\ session_seq = 2
    /\ workspaces = (SessionWorkspace :>
           [NewWorkspace EXCEPT !.template_settings = Settings("email_code", NULL, NULL)])
    /\ sessions = [s \in SessionIds |->
                      [NewSession(IF s = 1 THEN "AAAAAA" ELSE "BBBBBB",
                                  Settings("email_code", NULL, NULL))
                          EXCEPT !.start_datetime = 1]]
    /\ session_modules = <<>>
    /\ module_seq = 0
    /\ timer_states = <<>>
    /\ question_messages = <<>>
    /\ question_likes = {}
    /\ participants = <<>>
    /\ fingerprints = {}
    /\ guest_verifications = {}
    /\ pending_codes = {}
    /\ users = RegisteredUsers
    /\ tokens = {}
    /\ now = 1
    /\ tx = <<>>
    /\ last = Result("init", TRUE, "", NULL, NULL)

NextCode ==
    \/ \E pc \in AuthPasscodes, e \in Emails, c \in DrawnCodes : RequestCode(pc, e, c)
    \/ \E pc \in AuthPasscodes, e \in Emails, c \in TypedCodes : VerifyCode(pc, e, c)
    \/ Tick

SpecCode == InitCode /\ [][NextCode]_vars

\* the pending rows of a (session, email) pair
PendingOf(rows, sid, e) == {c \in rows : c.session_id = sid /\ c.email = e}

OnePendingPerSessionEmail ==
    \A a, b \in pending_codes : (a.session_id = b.session_id /\ a.email = b.email) => a = b

\* a successful request_code leaves the requested code as the pair's only row
RequestOverwrites ==
    \A pc \in AuthPasscodes, e \in Emails, c \in DrawnCodes :
        (RequestCode(pc, e, c) /\ last'.ok) =>
            \A row \in PendingOf(pending_codes', SessionGetByPasscode(pc), e) : row.code = c

\* the outcome of verify_code by the state of the pair's row
VerifyOutcome ==
    \A pc \in AuthPasscodes, e \in Emails, c \in TypedCodes :
        VerifyCode(pc, e, c) =>
            LET sid == SessionGetByPasscode(pc)
                match == {row \in PendingOf(pending_codes, sid, e) : row.code = c}
            IN IF match = {}
               THEN /\ ~last'.ok
                    /\ pending_codes' = pending_codes
                    /\ tokens' = tokens
                    /\ guest_verifications' = guest_verifications
               ELSE IF \E row \in match : row.expires_at < now
               THEN /\ ~last'.ok
                    /\ PendingOf(pending_codes', sid, e) = {}
                    /\ tokens' = tokens
                    /\ guest_verifications' = guest_verifications
               ELSE /\ last'.ok
                    /\ PendingOf(pending_codes', sid, e) = {}
                    /\ e \in guest_verifications'

\* C32: at most one pending email code row exists per (session, email) in
\* every reachable state; a new request_code overwrites the previous code so
\* the old code no longer verifies; a successful verify_code deletes the row
\* so the same code cannot be verified twice; verifying after expiry fails and
\* deletes the row; a wrong code fails, issues no guest token and creates or
\* updates no GuestEmailVerification.
PendingCodeLifecycle ==
    /\ []OnePendingPerSessionEmail
    /\ [][(last'.op = "request_code" /\ now' = now) => RequestOverwrites]_vars
    /\ [][(last'.op = "verify_code" /\ now' = now) => VerifyOutcome]_vars

\* the code of an earlier request was typed after a new request replaced it
C32Witness ==
    /\ last.op = "verify_code" /\ ~last.ok
    /\ last.err = "Invalid verification code or email not found"
    /\ PendingOf(pending_codes, last.session_id, last.email) # {}
    /\ tokens # {}

\* ======================================================================
\* generate_unique_passcode: the loop
\* ======================================================================

\* max_attempts
MaxAttempts == 100

\* the call: not running, in its loop after a number of lookups, returned
\* with a code, or raised
GenIdle == [pos |-> "idle", attempt |-> 0, code |-> <<>>]

\* generate_unique_passcode is called
GenCall ==
    /\ tx.pos # "loop"
    /\ tx' = [pos |-> "loop", attempt |-> 0, code |-> <<>>]
    /\ last' = Result("generate_unique_passcode", TRUE, "called", NULL, NULL)
    /\ UNCHANGED <<wsVars, sessions, modVars, joinVars>>

\* one round of the loop: draw a code, look it up, return it when no session
\* holds it
GenAttempt(code) ==
    /\ tx.pos = "loop"
    /\ tx.attempt < MaxAttempts
    /\ code \in GeneratePasscode(PasscodeLength)
    /\ IF PasscodeExists(code)
       THEN /\ tx' = [tx EXCEPT !.attempt = @ + 1]
            /\ UNCHANGED last
       ELSE /\ tx' = [pos |-> "returned", attempt |-> tx.attempt + 1, code |-> code]
            /\ last' = Result("generate_unique_passcode", TRUE, "", NULL, NULL)
    /\ UNCHANGED <<wsVars, sessions, modVars, joinVars>>

\* the loop ran out: ValueError
GenRaise ==
    /\ tx.pos = "loop"
    /\ tx.attempt = MaxAttempts
    /\ tx' = [tx EXCEPT !.pos = "raised"]
    /\ last' = Result("generate_unique_passcode", FALSE, "Unable to generate unique passcode",
                      NULL, NULL)
    /\ UNCHANGED <<wsVars, sessions, modVars, joinVars>>

\* up to two sessions, soft-deleted or not, holding generated codes
InitGenerate ==
    /\ workspaces = InitialWorkspaces
    /\ \E n \in 0..2, codes \in [1..2 -> GeneratePasscode(PasscodeLength)],
          del \in [1..2 -> BOOLEAN] :
         /\ n = 2 => codes[1] # codes[2]
         /\ session_seq = n
         /\ sessions = [o \in 1..n |->
                           [NewSession(codes[o], DefaultSettings) EXCEPT !.is_deleted = del[o]]]
    /\ session_modules = <<>>
    /\ module_seq = 0
    /\ timer_states = <<>>
    /\ question_messages = <<>>
    /\ question_likes = {}
    /\ participants = <<>>
    /\ fingerprints = {}
    /\ guest_verifications = {}
    /\ pending_codes = {}
    /\ users = RegisteredUsers
    /\ tokens = {}
    /\ now = 1
    /\ tx = GenIdle
    /\ last = Result("init", TRUE, "", NULL, NULL)

NextGenerate ==
    \/ GenCall
    \/ \E code \in GeneratePasscode(PasscodeLength) : GenAttempt(code)
    \/ GenRaise

\* a call that has begun keeps running: each round and the final raise are
\* steps of one thread
SpecGenerate ==
    /\ InitGenerate
    /\ [][NextGenerate]_vars
    /\ WF_vars(\E code \in GeneratePasscode(PasscodeLength) : GenAttempt(code))
    /\ WF_vars(GenRaise)

\* C33: generate_unique_passcode always terminates: it performs at most
\* max_attempts (100) generate-and-lookup rounds, each lookup covering
\* soft-deleted sessions too, and either returns a code that no session holds
\* at lookup time or, when every attempt collided, raises the
\* generation-exhausted error without changing any state.
GenerateUniqueTerminates ==
    /\ (tx.pos = "loop") ~> (tx.pos \in {"returned", "raised"})
    /\ [](tx.attempt <= 100)
    /\ [](tx.pos = "returned" =>
             /\ \A o \in DOMAIN sessions : sessions[o].passcode # tx.code
             /\ Len(tx.code) = 6)
    /\ [](tx.pos = "raised" => tx.attempt = 100 /\ ~last.ok)
    /\ [][tx'.pos = "raised" => UNCHANGED <<wsVars, sessions, modVars, joinVars>>]_vars

\* every one of the hundred rounds drew a code in use and the call raised
C33Witness ==
    /\ tx.pos = "raised"
    /\ tx.attempt = 100
    /\ last.op = "generate_unique_passcode" /\ ~last.ok
    /\ \E code \in GeneratePasscode(PasscodeLength) : ~PasscodeExists(code)

\* ======================================================================
\* Capacity under concurrent joins
\* ======================================================================

\* an anonymous join request in flight
AnonRequest(pc, fp) ==
    [op |-> "join_anonymous", passcode |-> pc, user_id |-> NULL, email |-> "",
     fingerprint |-> fp, sid |-> NULL, pos |-> "gate"]

\* a request arrives
AnonBegin(t, pc, fp) ==
    /\ tx[t].pos = "done"
    /\ tx' = [tx EXCEPT ![t] = AnonRequest(pc, fp)]
    /\ UNCHANGED <<wsVars, sessions, modVars, joinVars, last>>

\* join_anonymous: get_by_passcode, _check_session_started, _check_entry_mode
AnonGate(t) ==
    /\ tx[t].op = "join_anonymous" /\ tx[t].pos = "gate"
    /\ LET sid == SessionGetByPasscode(tx[t].passcode)
       IN IF JoinGateError(sid, "anonymous") # ""
          THEN /\ tx' = [tx EXCEPT ![t].pos = "done", ![t].sid = sid]
               /\ last' = ResultJ("join_anonymous", FALSE, JoinGateError(sid, "anonymous"),
                                  sid, NULL, NULL, "", tx[t].fingerprint, NoToken)
          ELSE /\ tx' = [tx EXCEPT ![t].pos = "capacity", ![t].sid = sid]
               /\ UNCHANGED last
    /\ UNCHANGED <<wsVars, sessions, modVars, joinVars>>

\* join_anonymous: _check_max_participants reads the committed rows
AnonCapacity(t) ==
    /\ tx[t].op = "join_anonymous" /\ tx[t].pos = "capacity"
    /\ IF MaxParticipantsError(tx[t].sid) # ""
       THEN RaceDone(t, FALSE, MaxParticipantsError(tx[t].sid), NULL)
       ELSE tx' = [tx EXCEPT ![t].pos = "ratelimit"] /\ UNCHANGED last
    /\ UNCHANGED <<wsVars, sessions, modVars, joinVars>>

\* join_anonymous: _enforce_fingerprint_limit
AnonRateLimit(t) ==
    /\ tx[t].op = "join_anonymous" /\ tx[t].pos = "ratelimit"
    /\ IF FingerprintLimitError(tx[t].sid, tx[t].fingerprint, "anonymous") # ""
       THEN RaceDone(t, FALSE,
                     FingerprintLimitError(tx[t].sid, tx[t].fingerprint, "anonymous"), NULL)
       ELSE tx' = [tx EXCEPT ![t].pos = "insert"] /\ UNCHANGED last
    /\ UNCHANGED <<wsVars, sessions, modVars, joinVars>>

\* join_anonymous: create, flush, _track_fingerprint_join, commit
AnonInsert(t) ==
    /\ tx[t].op = "join_anonymous" /\ tx[t].pos = "insert"
    /\ Len(participants) < MaxParticipants
    /\ LET p == Len(participants) + 1
       IN /\ participants' = Append(participants, NewParticipant(tx[t].sid, "anonymous", NULL, ""))
          /\ fingerprints' = fingerprints \cup
                 {NewFingerprint(tx[t].sid, tx[t].fingerprint, "anonymous", p)}
          /\ tokens' = tokens \cup {ParticipantToken(p, tx[t].sid)}
          /\ tx' = [tx EXCEPT ![t].pos = "done"]
          /\ last' = ResultJ("join_anonymous", TRUE, "", tx[t].sid, p, NULL, "",
                             tx[t].fingerprint, ParticipantToken(p, tx[t].sid))
    /\ UNCHANGED <<wsVars, sessions, modVars, guest_verifications, pending_codes, users, now>>

\* a started session in anonymous entry mode, with or without a cap
InitAnonRace ==
    /\ workspaces = InitialWorkspaces
    /\ session_seq = 1
    /\ \E c \in CapInputs :
         sessions = (1 :> [NewSession("AAAAAA", Settings("anonymous", c, NULL))
                              EXCEPT !.start_datetime = 1])
    /\ session_modules = <<>>
    /\ module_seq = 0
    /\ timer_states = <<>>
    /\ question_messages = <<>>
    /\ question_likes = {}
    /\ participants = <<>>
    /\ fingerprints = {}
    /\ guest_verifications = {}
    /\ pending_codes = {}
    /\ users = RegisteredUsers
    /\ tokens = {}
    /\ now = 1
    /\ tx = [t \in Txns |-> NoRequest]
    /\ last = Result("init", TRUE, "", NULL, NULL)

NextAnonRace ==
    \/ \E t \in Txns, pc \in PasscodeInputs, fp \in {"fp1", "fp2"} : AnonBegin(t, pc, fp)
    \/ \E t \in Txns : AnonGate(t)
    \/ \E t \in Txns : AnonCapacity(t)
    \/ \E t \in Txns : AnonRateLimit(t)
    \/ \E t \in Txns : AnonInsert(t)

SpecAnonRace == InitAnonRace /\ [][NextAnonRace]_vars

\* C34: when join requests for the same session run concurrently (each reads
\* the participant count, then inserts its participant and commits), the
\* number of non-deleted participants of the session never exceeds
\* max_participants in any interleaving.
CapacityHoldsUnderRace ==
    \A sid \in DOMAIN sessions :
        sessions[sid].settings.max_participants # NULL =>
            Cardinality({p \in DOMAIN participants :
                            participants[p].session_id = sid /\ ~participants[p].is_deleted})
                <= sessions[sid].settings.max_participants

\* ======================================================================
\* The domain whitelist and guests
\* ======================================================================

\* email-code templates without and with a whitelist that leaves x.org out
WhitelistTemplates ==
    {Settings("email_code", NULL, NULL),
     [Settings("email_code", NULL, NULL) EXCEPT !.email_code_domains_whitelist = {"y.org"}]}

\* a workspace whose owner creates and starts sessions from its template and
\* edits the template, while a guest requests and verifies codes and joins
InitWhitelist ==
    /\ \E t \in WhitelistTemplates :
         workspaces = (SessionWorkspace :> [NewWorkspace EXCEPT !.template_settings = t])
    /\ session_seq = 0
    /\ sessions = <<>>
    /\ session_modules = <<>>
    /\ module_seq = 0
    /\ timer_states = <<>>
    /\ question_messages = <<>>
    /\ question_likes = {}
    /\ participants = <<>>
    /\ fingerprints = {}
    /\ guest_verifications = {}
    /\ pending_codes = {}
    /\ users = RegisteredUsers
    /\ tokens = {}
    /\ now = 1
    /\ tx = <<>>
    /\ last = Result("init", TRUE, "", NULL, NULL)

NextWhitelist ==
    \/ \E pc \in Passcodes :
           CreateSession(workspaces[SessionWorkspace].template_settings, pc, WorkspaceOwner)
    \/ \E sid \in SessionIds : StartSession(sid, WorkspaceOwner)
    \/ \E t \in WhitelistTemplates : UpdateWorkspace(WorkspaceOwner, <<t>>)
    \/ \E pc \in Passcodes, e \in Emails, c \in Codes : RequestCode(pc, e, c)
    \/ \E pc \in Passcodes, e \in Emails, c \in Codes : VerifyCode(pc, e, c)
    \/ \E pc \in Passcodes, e \in Emails : JoinGuest(pc, e, "fp1")

SpecWhitelist == InitWhitelist /\ [][NextWhitelist]_vars

\* the domain of the guests' address
GuestDomain == "x.org"

\* C35: in a session whose effective settings have a non-empty
\* email_code_domains_whitelist, every guest_email participant has an email
\* whose domain is in that whitelist, including guests whose email was
\* verified through a different session and guests who verify a code
\* requested before the whitelist applied.
GuestsWithinWhitelist ==
    \A sid \in DOMAIN sessions :
        (/\ GetSettings(sid).email_code_domains_whitelist # {}
         /\ GetMergedSettings(sid).email_code_domains_whitelist # {}) =>
            \A p \in DOMAIN participants :
                (/\ participants[p].session_id = sid
                 /\ participants[p].participant_type = "guest_email"
                 /\ ~participants[p].is_deleted) =>
                    /\ GuestDomain \in GetSettings(sid).email_code_domains_whitelist
                    /\ GuestDomain \in GetMergedSettings(sid).email_code_domains_whitelist

\* ======================================================================
\* A session that was never started
\* ======================================================================

\* the owner has just asked to soft-delete a live session that was created
\* and never started
OwnerDeletesNeverStarted ==
    /\ last'.op = "delete_session"
    /\ last'.user_id = WorkspaceOwner
    /\ WorkspaceGetById(SessionWorkspace) # NULL
    /\ last'.session_id \in DOMAIN sessions
    /\ ~sessions[last'.session_id].is_deleted
    /\ sessions[last'.session_id].start_datetime = NULL

\* the owner has just asked to soft-delete a workspace all of whose sessions
\* are stopped or were never started
OwnerDeletesIdleWorkspace ==
    /\ last'.op = "delete_workspace"
    /\ last'.user_id = WorkspaceOwner
    /\ WorkspaceGetById(SessionWorkspace) # NULL
    /\ \A x \in DOMAIN sessions :
          sessions[x].is_deleted \/ sessions[x].is_stopped \/ sessions[x].start_datetime = NULL

\* C36: a session that has been created but never started counts as not
\* running: its owner can soft-delete it, and it does not block deletion of
\* its workspace.
NeverStartedIsNotRunning ==
    [][/\ OwnerDeletesNeverStarted =>
             last'.ok /\ sessions'[last'.session_id].is_deleted
       /\ OwnerDeletesIdleWorkspace =>
             last'.ok /\ workspaces'[SessionWorkspace].is_deleted]_vars

\* ======================================================================
\* Sessions of an archived workspace
\* ======================================================================

\* C37: in every reachable state, no non-deleted session has status active
\* while its workspace has status archive: archiving a workspace archives all
\* of its active sessions, and no later operation (start, stop, unarchive,
\* restore of a soft-deleted session) makes a session of an archived
\* workspace active and non-deleted.
NoActiveSessionInArchivedWorkspace ==
    (SessionWorkspace \in DOMAIN workspaces
        /\ workspaces[SessionWorkspace].status = "archive") =>
        \A x \in DOMAIN sessions : sessions[x].is_deleted \/ sessions[x].status # "active"

\* ======================================================================
\* Soft-deleted modules
\* ======================================================================

\* no soft-deleted row is active, and no session points at one
DeletedModulesInactive ==
    /\ \A m \in DOMAIN session_modules :
          session_modules[m].is_deleted => ~session_modules[m].is_active
    /\ \A sid \in DOMAIN sessions :
          sessions[sid].active_module_id \in DOMAIN session_modules =>
              ~session_modules[sessions[sid].active_module_id].is_deleted

\* C38: a soft-deleted module is never active: in every reachable state
\* is_deleted = true implies is_active = false and the session's
\* active_module_id does not reference a deleted module, and
\* set_active_module on a soft-deleted module is rejected.
DeletedModuleNeverActive ==
    /\ []DeletedModulesInactive
    /\ [][(/\ last'.op = "set_active_module"
           /\ last'.id \in DOMAIN session_modules
           /\ session_modules[last'.id].is_deleted) => ~last'.ok]_vars

\* ======================================================================
\* Activation stays possible
\* ======================================================================

\* C39: from every reachable state, set_active_module(M) issued alone by the
\* owner on any non-deleted module M of the session succeeds and commits with
\* M as the only active module, so no sequence of add, activate, deactivate
\* and delete operations leaves a session in which activating a module fails.
ActivationAlwaysPossible ==
    [][last'.op = "set_active_module" =>
         \A sid \in SessionIds, m \in ModuleIds :
            (/\ m \in DOMAIN session_modules
             /\ ~session_modules[m].is_deleted
             /\ session_modules[m].session_id = sid
             /\ SetActiveModule(sid, m, WorkspaceOwner)) =>
                /\ last'.ok
                /\ ActiveOf(session_modules', sid) = {m}]_vars

\* ======================================================================
\* The fields of a session
\* ======================================================================

\* create, start, stop, delete and restore under a moving clock
NextFields ==
    \/ \E pc \in Passcodes, u \in UserIds : CreateSession(DefaultSettings, pc, u)
    \/ \E sid \in SessionIds, u \in UserIds : StartSession(sid, u)
    \/ \E sid \in SessionIds, u \in UserIds, c \in CountInputs : StopSession(sid, u, c)
    \/ \E sid \in SessionIds, u \in UserIds, hard \in BOOLEAN : DeleteSession(sid, u, hard)
    \/ \E sid \in SessionIds, u \in UserIds : RestoreSession(sid, u)
    \/ Tick

SpecFields == InitLifecycle /\ [][NextFields]_vars

====
